---- MODULE Spec2Model ----
(***************************************************************************)
(* Verification model of the Data-Entry-App form pipeline.                 *)
(*                                                                         *)
(*   backend/Validator.py        field validation (Validator)             *)
(*   Request_Form_Preparer.py    border crop + scaling (RequestFormPreparer)*)
(*                                                                         *)
(* Strings are sequences of one-character strings, so that the regular     *)
(* expressions and the date parser are modelled by what they match.        *)
(***************************************************************************)
EXTENDS Integers, Sequences, FiniteSets, TLC

VARIABLES
    data,       \* Validator: the field map handed to validate_data
    v_pc,       \* Validator: "ready" | "returned" | "raised"
    v_out,      \* Validator: [exc, errors] of the last call
    img,        \* Preparer: the source image (self.image / the image argument)
    contours,   \* Preparer: what cv2.findContours yields on the cleaned mask
    color,      \* Preparer: border_color argument
    min_area,   \* Preparer: min_contour_area argument
    target,     \* Preparer: target_size argument, (width, height) as cv2 dsize
    p_pc,       \* Preparer: "ready" | "returned" | "raised"
    p_call,     \* Preparer: which entry point was called
    p_out,      \* Preparer: [exc, image, rect, cropped, trace] of the last call
    a_call,     \* Preprocessor: which method was called
    a_args,     \* Preprocessor: [image, brightness, contrast, threshold, boost, all_channels]
    a_pc,       \* Preprocessor: "ready" | "returned" | "raised"
    a_out,      \* Preprocessor: [exc, image, hsv] of the last call
    t_pc,       \* Tuner: "start" | "Rendering" | "Idle" | "closed" | "raised"
    t_image,    \* Tuner: the array handed to visualize, [pixels, drawn]
    t_track,    \* Tuner: positions of the three trackbars
    t_frame,    \* Tuner: the array last given to cv2.imshow
    t_key,      \* Tuner: the key the last cv2.waitKey returned
    t_all_channels, \* Tuner: whether cv2.add spreads a number over all channels
    u_file,     \* FormUpload: state `file`
    u_extractedData,       \* FormUpload: state `extractedData`
    u_validationErrors,    \* FormUpload: state `validationErrors`
    u_showCorrectionForm,  \* FormUpload: state `showCorrectionForm`
    u_fetch,    \* FormUpload: the requests awaiting their response
    u_last,     \* FormUpload: the last response a handler resumed with
    b_batch,    \* Batch: the images of the batch, [file, color] each
    b_outcomes, \* Batch: what the caller has recorded for the images done
    b_pc,       \* Batch: "running" | "done"
    w_frames,   \* Workers: per worker, its call, position, locals and result
    w_overlap,  \* Workers: a step was taken while the other call was under way
    c_data,     \* CorrectionForm: prop `data`
    c_validationErrors,  \* CorrectionForm: prop `validationErrors`
    c_correctedData,     \* CorrectionForm: state `correctedData`
    c_edited,   \* CorrectionForm: the fields whose input the operator has changed
    c_pc,       \* CorrectionForm: "mounted" | "submitted"
    c_submitted,         \* CorrectionForm: what onSubmit was last called with
    f_version,  \* FolderScanner: which of the two sources runs
    f_folderPath,        \* FolderScanner: state `folderPath`
    f_selectedFiles,     \* FolderScanner: state `selectedFiles`, the sizes of the files
    f_processing,        \* FolderScanner: state `processing`
    f_progress, \* FolderScanner: state `progress`
    f_result,   \* FolderScanner: state `result`
    f_error,    \* FolderScanner: state `error`
    f_scans,    \* FolderScanner: the scans under way, each with its position
    f_log,      \* FolderScanner: the values the last scan has given to setProgress
    f_last,     \* FolderScanner: the scan that completed last and what it set
    r_version,  \* PatientRecordsDashboard: which of the two sources runs
    r_records,  \* PatientRecordsDashboard: state `records`
    r_loading,  \* PatientRecordsDashboard: state `loading`
    r_stats,    \* PatientRecordsDashboard: state `stats`
    r_sortConfig,        \* PatientRecordsDashboard: state `sortConfig`
    r_searchTerm,        \* PatientRecordsDashboard: state `searchTerm`
    r_fetch,    \* PatientRecordsDashboard: the number of fetchRecords awaiting their response
    r_view,     \* PatientRecordsDashboard: what the last render computed as filteredRecords
    r_last,     \* PatientRecordsDashboard: the response the last fetchRecords resumed with
    d_isBackingUp,       \* DatabaseManagement: state `isBackingUp`
    d_isOptimizing,      \* DatabaseManagement: state `isOptimizing`
    d_lastBackup,        \* DatabaseManagement: state `lastBackup`
    d_fetch,    \* DatabaseManagement: the number of backups awaiting their response
    d_clock,    \* DatabaseManagement: what new Date() gives
    d_last      \* DatabaseManagement: the response the last handleBackup resumed with

v_vars == <<data, v_pc, v_out>>
p_vars == <<img, contours, color, min_area, target, p_pc, p_call, p_out>>
a_vars == <<a_call, a_args, a_pc, a_out>>
\* the variables of the parts that came after the validator and the preparer
t_vars == <<t_pc, t_image, t_track, t_frame, t_key, t_all_channels>>
u_vars == <<u_file, u_extractedData, u_validationErrors, u_showCorrectionForm, u_fetch, u_last>>
b_vars == <<b_batch, b_outcomes, b_pc>>
w_vars == <<w_frames, w_overlap>>
c_vars == <<c_data, c_validationErrors, c_correctedData, c_edited, c_pc, c_submitted>>
f_vars == <<f_version, f_folderPath, f_selectedFiles, f_processing, f_progress, f_result,
            f_error, f_scans, f_log, f_last>>
r_vars == <<r_version, r_records, r_loading, r_stats, r_sortConfig, r_searchTerm, r_fetch,
            r_view, r_last>>
d_vars == <<d_isBackingUp, d_isOptimizing, d_lastBackup, d_fetch, d_clock, d_last>>
\* the React components other than FormUpload
fe_vars == <<c_vars, f_vars, r_vars, d_vars>>
new_vars == <<a_vars, t_vars, u_vars, b_vars, w_vars, fe_vars>>
\* for each of these parts, the variables of the other ones
but_a == <<t_vars, u_vars, b_vars, w_vars, fe_vars>>
but_t == <<a_vars, u_vars, b_vars, w_vars, fe_vars>>
but_u == <<a_vars, t_vars, b_vars, w_vars, fe_vars>>
but_b == <<a_vars, t_vars, u_vars, w_vars, fe_vars>>
but_w == <<a_vars, t_vars, u_vars, b_vars, fe_vars>>
\* everything outside the React components other than FormUpload
core_vars == <<v_vars, p_vars, a_vars, t_vars, u_vars, b_vars, w_vars>>
but_c == <<core_vars, f_vars, r_vars, d_vars>>
but_f == <<core_vars, c_vars, r_vars, d_vars>>
but_r == <<core_vars, c_vars, f_vars, d_vars>>
but_d == <<core_vars, c_vars, f_vars, r_vars>>
vars == <<v_vars, p_vars, new_vars>>

(***************************************************************************)
(* Bounds of the model.                                                    *)
(***************************************************************************)
\* extra junk characters put before / after a well-formed value
MaxExtra == 1
\* how far the length of a digit run may be off the length the rule asks for
MaxOff == 1
\* the widest margin between a contour's bounding rectangle and an image edge
MaxMargin == 6
\* the longest list of contours cv2.findContours yields
MaxContours == 2
\* the number of pixels of the largest image handed to the pixel operations
MaxPixels == 2
\* the number of requests of FormUpload that may await their response at once
MaxInFlight == 2
\* the number of images of the longest batch
MaxBatch == 3

(***************************************************************************)
(* Characters.                                                             *)
(***************************************************************************)
AsciiDigits == {"0", "1", "2", "3", "4", "5", "6", "7", "8", "9"}
\* U+0663 ARABIC-INDIC DIGIT THREE: a str pattern's \d matches every Unicode
\* decimal digit, the classes [0-9] do not.
UnicodeDigits == {"u0663"}
Letters == {"H", "h", "A", "z"}
Junk == {" ", "\n", "x", "-"}

DigitValue(c) ==
    CASE c = "0" -> 0 [] c = "1" -> 1 [] c = "2" -> 2 [] c = "3" -> 3
      [] c = "4" -> 4 [] c = "5" -> 5 [] c = "6" -> 6 [] c = "7" -> 7
      [] c = "8" -> 8 [] c = "9" -> 9 [] c = "u0663" -> 3

\* character classes of the patterns
InClass(cls, c) ==
    CASE cls = "\\d"         -> c \in AsciiDigits \cup UnicodeDigits
      [] cls = "[A-Za-z0-9]" -> c \in AsciiDigits \cup Letters
      [] cls = "[0-1]"       -> c \in {"0", "1"}
      [] cls = "[0-2]"       -> c \in {"0", "1", "2"}
      [] cls = "[1-2]"       -> c \in {"1", "2"}
      [] cls = "[1-9]"       -> c \in AsciiDigits \ {"0"}
      [] OTHER               -> c = cls      \* a literal character

(***************************************************************************)
(* re.match(pattern, s): the pattern is a sequence of tokens               *)
(*   [kind |-> "bol"]                 ^                                     *)
(*   [kind |-> "eol"]                 $  (end, or before a final newline)   *)
(*   [kind |-> "rep", cls, n]         cls{n}; a literal is cls{1}           *)
(* matched from position pos of s; re.match does not ask for the end of    *)
(* the string unless the pattern does.                                     *)
(***************************************************************************)
Bol == [kind |-> "bol", cls |-> "", n |-> 0]
Eol == [kind |-> "eol", cls |-> "", n |-> 0]
Rep(c, k) == [kind |-> "rep", cls |-> c, n |-> k]
Lit(c) == [kind |-> "rep", cls |-> c, n |-> 1]

\* $ without re.MULTILINE: at the end of the string, or just before the
\* newline that ends the string
Dollar(s, pos) ==
    \/ pos = Len(s) + 1
    \/ pos = Len(s) /\ s[pos] = "\n"

RECURSIVE MatchFrom(_, _, _, _)
MatchFrom(pat, s, k, pos) ==
    IF k > Len(pat) THEN TRUE
    ELSE LET t == pat[k] IN
         CASE t.kind = "bol" -> pos = 1 /\ MatchFrom(pat, s, k + 1, pos)
           [] t.kind = "eol" -> Dollar(s, pos) /\ MatchFrom(pat, s, k + 1, pos)
           [] t.kind = "rep" ->
                /\ pos + t.n - 1 <= Len(s)
                /\ \A i \in pos .. (pos + t.n - 1) : InClass(t.cls, s[i])
                /\ MatchFrom(pat, s, k + 1, pos + t.n)

re_match(pat, s) == MatchFrom(pat, s, 1, 1)

\* r'^\d{10}$'
MEDICARE_RE == <<Bol, Rep("\\d", 10), Eol>>
\* r'^24H\d{5}$'
REQUEST_RE == <<Bol, Lit("2"), Lit("4"), Lit("H"), Rep("\\d", 5), Eol>>
\* r'^[A-Za-z0-9]{8}$'
PROVIDER_RE == <<Bol, Rep("[A-Za-z0-9]", 8), Eol>>

is_valid_medicare_number(medicare_number) == re_match(MEDICARE_RE, medicare_number)

is_valid_phone_number(phone_number) == re_match(MEDICARE_RE, phone_number)

is_valid_request_number(request_number) == re_match(REQUEST_RE, request_number)

is_valid_provider_number(provider_number) == re_match(PROVIDER_RE, provider_number)

(***************************************************************************)
(* datetime.strptime(date_str, '%d/%m/%Y').  _strptime turns the format    *)
(* into a regular expression of ordered alternatives,                      *)
(*   %d  3[0-1]|[1-2]\d|0[1-9]|[1-9]| [1-9]                                *)
(*   %m  1[0-2]|0[1-9]|[1-9]                                               *)
(*   %Y  \d\d\d\d                                                          *)
(* matches it at the start of the string (backtracking over the            *)
(* alternatives), rejects unconverted trailing data, converts the groups   *)
(* with int() and builds a date, which rejects a day the month has not.    *)
(***************************************************************************)
DIRECTIVE_d == << <<"3", "[0-1]">>, <<"[1-2]", "\\d">>, <<"0", "[1-9]">>, <<"[1-9]">>, <<" ", "[1-9]">> >>
DIRECTIVE_m == << <<"1", "[0-2]">>, <<"0", "[1-9]">>, <<"[1-9]">> >>
DIRECTIVE_Y == << <<"\\d", "\\d", "\\d", "\\d">> >>
LITERAL_slash == << <<"/">> >>

\* '%d/%m/%Y'
DATE_FORMAT == <<DIRECTIVE_d, LITERAL_slash, DIRECTIVE_m, LITERAL_slash, DIRECTIVE_Y>>

AltMatches(alt, s, pos) ==
    /\ pos + Len(alt) - 1 <= Len(s)
    /\ \A i \in 1 .. Len(alt) : InClass(alt[i], s[pos + i - 1])

NoMatch == [ok |-> FALSE, end |-> 0, caps |-> <<>>]

RECURSIVE ParseItems(_, _, _, _, _)
RECURSIVE TryAlt(_, _, _, _, _, _)
\* the groups of fmt from item k on, matched at pos; caps are the groups so far
ParseItems(fmt, s, k, pos, caps) ==
    IF k > Len(fmt) THEN [ok |-> TRUE, end |-> pos, caps |-> caps]
    ELSE TryAlt(fmt, s, k, pos, caps, 1)

TryAlt(fmt, s, k, pos, caps, a) ==
    IF a > Len(fmt[k]) THEN NoMatch
    ELSE LET alt == fmt[k][a] IN
         IF AltMatches(alt, s, pos)
         THEN LET r == ParseItems(fmt, s, k + 1, pos + Len(alt),
                                  Append(caps, SubSeq(s, pos, pos + Len(alt) - 1)))
              IN IF r.ok THEN r ELSE TryAlt(fmt, s, k, pos, caps, a + 1)
         ELSE TryAlt(fmt, s, k, pos, caps, a + 1)

\* int(text) of a matched group: blanks are stripped, digits are decimal
RECURSIVE int(_)
int(text) ==
    IF text = <<>> THEN 0
    ELSE LET last == text[Len(text)]
             rest == SubSeq(text, 1, Len(text) - 1)
         IN IF last = " " THEN int(rest) ELSE 10 * int(rest) + DigitValue(last)

is_leap(year) == year % 4 = 0 /\ (year % 100 # 0 \/ year % 400 = 0)

\* variant: no month length, every month has 31 days
days_in_month_always_31(year, month) == 31

days_in_month(year, month) ==
    CASE month \in {1, 3, 5, 7, 8, 10, 12} -> 31
      [] month \in {4, 6, 9, 11} -> 30
      [] month = 2 -> IF is_leap(year) THEN 29 ELSE 28

\* datetime.date(year, month, day) raises ValueError outside the calendar
datetime_date(year, month, day) ==
    IF /\ year >= 1           \* datetime.MINYEAR
       /\ month \in 1 .. 12
       /\ day >= 1
       /\ day <= days_in_month(year, month)
    THEN [exc |-> "none", year |-> year, month |-> month, day |-> day]
    ELSE [exc |-> "ValueError", year |-> 0, month |-> 0, day |-> 0]

strptime(date_str, format) ==
    LET found == ParseItems(format, date_str, 1, 1, <<>>) IN
    IF ~found.ok
    THEN [exc |-> "ValueError", year |-> 0, month |-> 0, day |-> 0]   \* does not match format
    ELSE IF found.end # Len(date_str) + 1
    THEN [exc |-> "ValueError", year |-> 0, month |-> 0, day |-> 0]   \* unconverted data remains
    ELSE datetime_date(int(found.caps[5]), int(found.caps[3]), int(found.caps[1]))

\* variant: no except clause, the parser's ValueError leaves the call
is_valid_date_uncaught(date_str) ==
    LET r == strptime(date_str, DATE_FORMAT) IN
    IF r.exc = "none" THEN [exc |-> "none", val |-> TRUE]
    ELSE [exc |-> r.exc, val |-> FALSE]

\* try: strptime(...); return True / except ValueError: return False
is_valid_date(date_str) ==
    LET r == strptime(date_str, DATE_FORMAT) IN
    IF r.exc = "none" THEN [exc |-> "none", val |-> TRUE]
    ELSE IF r.exc = "ValueError" THEN [exc |-> "none", val |-> FALSE]
    ELSE [exc |-> r.exc, val |-> FALSE]

(***************************************************************************)
(* Validator.validate_data(data): seven `if field in data and not          *)
(* is_valid_...(data[field])` statements, each storing a fixed message.    *)
(* The result is [exc, errors]; exc is the exception that left the call.   *)
(***************************************************************************)
EmptyDict == [f \in {} |-> ""]

MSG_MEDICARE == "Invalid Medicare Number format."
MSG_HOME == "Invalid Home Phone Number format."
MSG_MOBILE == "Invalid Mobile Phone Number format."
MSG_REQUEST == "Invalid Request Number format."
MSG_PROVIDER == "Invalid Provider Number format."
MSG_DOB == "Invalid Date of Birth format."
MSG_REQUEST_DATE == "Invalid Request Date format."

\* errors[field] = msg
SetItem(errors, field, msg) ==
    [f \in DOMAIN errors \cup {field} |-> IF f = field THEN msg ELSE errors[f]]

\* variant: no `field in data` test, an absent field is checked as ""
CheckField_absent_checked(acc, d, field, valid, msg) ==
    IF acc.exc # "none" THEN acc
    ELSE IF valid.exc # "none" THEN [exc |-> valid.exc, errors |-> acc.errors]
    ELSE IF ~valid.val THEN [exc |-> "none", errors |-> SetItem(acc.errors, field, msg)]
    ELSE acc

\* one `if field in data and not valid: errors[field] = msg` on the running
\* result acc; valid is the [exc, val] the predicate gives on data[field]
CheckField(acc, d, field, valid, msg) ==
    IF acc.exc # "none" THEN acc
    ELSE IF field \notin DOMAIN d THEN acc
    ELSE IF valid.exc # "none" THEN [exc |-> valid.exc, errors |-> acc.errors]
    ELSE IF ~valid.val THEN [exc |-> "none", errors |-> SetItem(acc.errors, field, msg)]
    ELSE acc

Returns(b) == [exc |-> "none", val |-> b]

validate_data(d) ==
    LET Val(f) == IF f \in DOMAIN d THEN d[f] ELSE <<>>
        e0 == [exc |-> "none", errors |-> EmptyDict]
        e1 == CheckField(e0, d, "medicare_number",
                  Returns(is_valid_medicare_number(Val("medicare_number"))), MSG_MEDICARE)
        e2 == CheckField(e1, d, "home_phone_number",
                  Returns(is_valid_phone_number(Val("home_phone_number"))), MSG_HOME)
        e3 == CheckField(e2, d, "mobile_phone_number",
                  Returns(is_valid_phone_number(Val("mobile_phone_number"))), MSG_MOBILE)
        e4 == CheckField(e3, d, "request_number",
                  Returns(is_valid_request_number(Val("request_number"))), MSG_REQUEST)
        e5 == CheckField(e4, d, "provider_number",
                  Returns(is_valid_provider_number(Val("provider_number"))), MSG_PROVIDER)
        e6 == CheckField(e5, d, "date_of_birth",
                  is_valid_date(Val("date_of_birth")), MSG_DOB)
        e7 == CheckField(e6, d, "request_date",
                  is_valid_date(Val("request_date")), MSG_REQUEST_DATE)
    IN e7

\* the tests of validate_data on the number fields, and those on the date
\* fields, on the running result acc
check_numbers(acc, d) ==
    LET Val(f) == IF f \in DOMAIN d THEN d[f] ELSE <<>>
        e1 == CheckField(acc, d, "medicare_number",
                  Returns(is_valid_medicare_number(Val("medicare_number"))), MSG_MEDICARE)
        e2 == CheckField(e1, d, "home_phone_number",
                  Returns(is_valid_phone_number(Val("home_phone_number"))), MSG_HOME)
        e3 == CheckField(e2, d, "mobile_phone_number",
                  Returns(is_valid_phone_number(Val("mobile_phone_number"))), MSG_MOBILE)
        e4 == CheckField(e3, d, "request_number",
                  Returns(is_valid_request_number(Val("request_number"))), MSG_REQUEST)
    IN CheckField(e4, d, "provider_number",
                  Returns(is_valid_provider_number(Val("provider_number"))), MSG_PROVIDER)

check_dates(acc, d) ==
    LET Val(f) == IF f \in DOMAIN d THEN d[f] ELSE <<>>
        e6 == CheckField(acc, d, "date_of_birth",
                  is_valid_date(Val("date_of_birth")), MSG_DOB)
    IN CheckField(e6, d, "request_date",
                  is_valid_date(Val("request_date")), MSG_REQUEST_DATE)

\* variant: the name is a module global, one slot seen by every call
STORE_GLOBAL(frames, w, name, value) ==
    [v \in DOMAIN frames |-> [frames[v] EXCEPT ![name] = value]]

\* an assignment to a local variable of the call of worker w: each call has
\* its own frame
STORE_FAST(frames, w, name, value) == [frames EXCEPT ![w][name] = value]

(***************************************************************************)
(* Field maps handed to validate_data.                                     *)
(***************************************************************************)
NumberFields == {"medicare_number", "home_phone_number", "mobile_phone_number"}
DateFields == {"date_of_birth", "request_date"}
RuleFields == NumberFields \cup {"request_number", "provider_number"} \cup DateFields
\* fields of the form that no rule covers
FreeTextFields == {"patient_name"}
AllFields == RuleFields \cup FreeTextFields

DigitCycle == <<"1", "2", "3", "4", "5", "6", "7", "8", "9", "0">>
\* the digit run 1234567890123... of length n
Run(n) == [i \in 1 .. n |-> DigitCycle[((i - 1) % 10) + 1]]

\* up to MaxExtra junk characters
Pads == UNION {[1 .. n -> Junk] : n \in 0 .. MaxExtra}

Lengths(n) == {k \in (n - MaxOff) .. (n + MaxOff) : k >= 0}

\* s, and s with one character (first, middle or last) replaced
Spoiled(s, chars) ==
    {s} \cup {[s EXCEPT ![k] = c] : k \in {1, (Len(s) + 1) \div 2, Len(s)} \cap (1 .. Len(s)),
                                    c \in chars}

\* a well-formed value between junk
Padded(s) == {pre \o s \o suf : pre \in Pads, suf \in Pads}

NumberValues ==
    (UNION {Spoiled(Run(n), {"x", " ", "u0663"}) : n \in Lengths(10)}) \cup Padded(Run(10))

RequestValues ==
    (UNION {Spoiled(<<"2", "4", "H">> \o Run(n), {"5", "h", "x"}) : n \in Lengths(5)})
        \cup Padded(<<"2", "4", "H">> \o Run(5))

ProviderValues ==
    (UNION {Spoiled(<<"A", "z">> \o Run(n), {"-", " ", "u0663"}) : n \in Lengths(6)})
        \cup Padded(<<"A", "z">> \o Run(6))

DayTexts == {<<"1">>, <<"0", "1">>, <<"9">>, <<"2", "8">>, <<"2", "9">>, <<"3", "0">>,
             <<"3", "1">>, <<"3", "2">>, <<"0", "0">>, <<"0">>, <<" ", "5">>, <<"1", "x">>,
             <<"0", "0", "1">>}
MonthTexts == {<<"1">>, <<"0", "1">>, <<"0", "2">>, <<"2">>, <<"0", "4">>, <<"1", "2">>,
               <<"1", "3">>, <<"0", "0">>, <<" ", "2">>}
YearTexts == {<<"2", "0", "0", "0">>, <<"2", "0", "2", "0">>, <<"2", "0", "2", "3">>,
              <<"1", "9", "0", "0">>, <<"0", "0", "0", "0">>, <<"2", "0", "0">>,
              <<"2", "0", "0", "0", "0">>, <<"2", "0", "x", "0">>, <<"2", "0">>}
Separators == {<<"/">>, <<"-">>, <<>>}

DateValues ==
    {d \o s1 \o m \o s2 \o y :
        d \in DayTexts, s1 \in Separators, m \in MonthTexts, s2 \in {<<"/">>}, y \in YearTexts}
    \cup {d \o <<"/">> \o m \o s2 \o y :
        d \in {<<"0", "1">>, <<"3", "1">>}, m \in {<<"0", "2">>}, s2 \in Separators,
        y \in YearTexts}
    \cup Padded(<<"0", "1", "/", "0", "1", "/", "2", "0", "0", "0">>)
    \cup Padded(<<"1", "/", "2", "/", "2", "0", "2", "0">>)

FreeTextValues == {<<>>, <<"x">>, <<"J", "o", " ", "x">>}

ValuesOf(field) ==
    CASE field \in NumberFields -> NumberValues
      [] field = "request_number" -> RequestValues
      [] field = "provider_number" -> ProviderValues
      [] field \in DateFields -> DateValues
      [] OTHER -> FreeTextValues

\* one sample per field that passes its rule, and one that does not
Sample(field, good) ==
    CASE field \in NumberFields -> IF good THEN Run(10) ELSE Run(5)
      [] field = "request_number" ->
            IF good THEN <<"2", "4", "H">> \o Run(5) ELSE <<"2", "5", "H">> \o Run(5)
      [] field = "provider_number" -> IF good THEN <<"A", "z">> \o Run(6) ELSE Run(7)
      [] field \in DateFields ->
            IF good THEN <<"0", "1", "/", "0", "1", "/", "2", "0", "0", "0">>
                    ELSE <<"3", "1", "/", "0", "2", "/", "2", "0", "2", "0">>
      [] OTHER -> IF good THEN <<"J", "o", " ", "x">> ELSE <<>>

SingleFieldMaps ==
    UNION {{[f \in {field} |-> v] : v \in ValuesOf(field)} : field \in AllFields}
ManyFieldMaps ==
    {[f \in S |-> Sample(f, g[f])] : S \in SUBSET AllFields, g \in [AllFields -> BOOLEAN]}

(***************************************************************************)
(* RequestFormPreparer.  An image is its size and a description of its     *)
(* pixels: a view of the source bitmap at an offset, or the result of a    *)
(* resize of such a view.  Two images with equal records have equal sizes  *)
(* and equal pixels.                                                       *)
(***************************************************************************)
\* the keys of RequestFormPreparer.COLOR_RANGES
COLOR_RANGES == {"blue", "black"}

\* padding = 5 in crop_to_border
padding == 5

\* default of min_contour_area
DEFAULT_MIN_CONTOUR_AREA == 1000

NoImage == [cols |-> 0, rows |-> 0, kind |-> "none", x0 |-> 0, y0 |-> 0,
            from_cols |-> 0, from_rows |-> 0]

SourceImage(w, h) == [cols |-> w, rows |-> h, kind |-> "source", x0 |-> 0, y0 |-> 0,
                      from_cols |-> 0, from_rows |-> 0]

NoRect == [x |-> 0, y |-> 0, w |-> 0, h |-> 0]

Min2(a, b) == IF a <= b THEN a ELSE b
Max2(a, b) == IF a >= b THEN a ELSE b

\* a slice bound i on an axis of length n: negative counts from the end,
\* and both ends are clipped to the axis
SliceIndex(i, n) == IF i < 0 THEN Max2(i + n, 0) ELSE Min2(i, n)

\* image[y0:y1, x0:x1]
Slice(image, ys, ye, xs, xe) ==
    LET cs == SliceIndex(xs, image.cols)
        ce == SliceIndex(xe, image.cols)
        rs == SliceIndex(ys, image.rows)
        re == SliceIndex(ye, image.rows)
    IN [image EXCEPT !.cols = Max2(ce - cs, 0), !.rows = Max2(re - rs, 0),
                     !.x0 = image.x0 + cs, !.y0 = image.y0 + rs]

contourArea(cnt) == cnt.area

boundingRect(cnt) == [x |-> cnt.x, y |-> cnt.y, w |-> cnt.w, h |-> cnt.h]

\* [cnt for cnt in contours if cv2.contourArea(cnt) > min_contour_area]
valid_contours(found, min_contour_area) ==
    SelectSeq(found, LAMBDA cnt : contourArea(cnt) > min_contour_area)

\* variant: the last of the largest
largest_contour_last(valid) ==
    LET i == CHOOSE k \in 1 .. Len(valid) :
                 /\ \A j \in 1 .. Len(valid) : contourArea(valid[j]) <= contourArea(valid[k])
                 /\ \A j \in (k + 1) .. Len(valid) : contourArea(valid[j]) < contourArea(valid[k])
    IN valid[i]

\* max(valid_contours, key=cv2.contourArea): the first of the largest
largest_contour(valid) ==
    LET i == CHOOSE k \in 1 .. Len(valid) :
                 /\ \A j \in 1 .. Len(valid) : contourArea(valid[j]) <= contourArea(valid[k])
                 /\ \A j \in 1 .. (k - 1) : contourArea(valid[j]) < contourArea(valid[k])
    IN valid[i]

\* variant: the padded width and height are not cut at the image edges
padded_rect_unclamped(image, r) ==
    [x |-> Max2(0, r.x - padding), y |-> Max2(0, r.y - padding),
     w |-> r.w + 2 * padding, h |-> r.h + 2 * padding]

\* x = max(0, x - padding); y = max(0, y - padding)
\* w = min(image.shape[1] - x, w + 2 * padding)
\* h = min(image.shape[0] - y, h + 2 * padding)
padded_rect(image, r) ==
    LET x == Max2(0, r.x - padding)
        y == Max2(0, r.y - padding)
        w == Min2(image.cols - x, r.w + 2 * padding)
        h == Min2(image.rows - y, r.h + 2 * padding)
    IN [x |-> x, y |-> y, w |-> w, h |-> h]

Result(exc, image, rect, cropped, trace) ==
    [exc |-> exc, image |-> image, rect |-> rect, cropped |-> cropped, trace |-> trace]

MASK_STAGES == <<"inRange", "MORPH_CLOSE", "MORPH_OPEN", "findContours">>

\* variant: no `if not valid_contours` test, max() of an empty list raises
crop_to_border_unguarded(image, border_color, min_contour_area, found) ==
    LET hsv == <<"cvtColor">> IN
    IF border_color \notin COLOR_RANGES
    THEN Result("KeyError", NoImage, NoRect, FALSE, hsv)
    ELSE LET trace == hsv \o MASK_STAGES
             valid == valid_contours(found, min_contour_area)
         IN IF found = <<>>
            THEN Result("none", image, NoRect, FALSE, trace)
            ELSE IF valid = <<>>
            THEN Result("ValueError", NoImage, NoRect, FALSE, trace)
            ELSE LET r == padded_rect(image, boundingRect(largest_contour(valid)))
                 IN Result("none", Slice(image, r.y, r.y + r.h, r.x, r.x + r.w), r, TRUE, trace)

\* crop_to_border(image, border_color, min_contour_area); found is what
\* cv2.findContours returns for the cleaned mask of this image and colour
crop_to_border(image, border_color, min_contour_area, found) ==
    LET hsv == <<"cvtColor">> IN
    IF border_color \notin COLOR_RANGES
    THEN Result("KeyError", NoImage, NoRect, FALSE, hsv)       \* self.COLOR_RANGES[border_color]
    ELSE LET trace == hsv \o MASK_STAGES
             valid == valid_contours(found, min_contour_area)
         IN IF found = <<>>
            THEN Result("none", image, NoRect, FALSE, trace)   \* No ... border found
            ELSE IF valid = <<>>
            THEN Result("none", image, NoRect, FALSE, trace)   \* No valid ... border found
            ELSE LET r == padded_rect(image, boundingRect(largest_contour(valid)))
                 IN Result("none", Slice(image, r.y, r.y + r.h, r.x, r.x + r.w), r, TRUE, trace)

\* variant: dsize read as (height, width)
scale_image_swapped(image, target_size) ==
    IF image.cols <= 0 \/ image.rows <= 0 \/ target_size[1] <= 0 \/ target_size[2] <= 0
    THEN Result("cv2.error", NoImage, NoRect, FALSE, <<"resize">>)
    ELSE Result("none",
                [cols |-> target_size[2], rows |-> target_size[1], kind |-> "resized",
                 x0 |-> image.x0, y0 |-> image.y0,
                 from_cols |-> image.cols, from_rows |-> image.rows],
                NoRect, FALSE, <<"resize">>)

\* cv2.resize(image, target_size, interpolation=interpolation): dsize is (width, height)
scale_image(image, target_size) ==
    IF image.cols <= 0 \/ image.rows <= 0 \/ target_size[1] <= 0 \/ target_size[2] <= 0
    THEN Result("cv2.error", NoImage, NoRect, FALSE, <<"resize">>)
    ELSE Result("none",
                [cols |-> target_size[1], rows |-> target_size[2], kind |-> "resized",
                 x0 |-> image.x0, y0 |-> image.y0,
                 from_cols |-> image.cols, from_rows |-> image.rows],
                NoRect, FALSE, <<"resize">>)

\* variant: the image is scaled only when a border was cropped
prepare_form_scales_crops_only(image, target_size, border_color, found) ==
    IF border_color \notin COLOR_RANGES
    THEN Result("ValueError", NoImage, NoRect, FALSE, <<>>)
    ELSE LET c == crop_to_border(image, border_color, DEFAULT_MIN_CONTOUR_AREA, found)
         IN IF c.exc # "none" \/ ~c.cropped
            THEN [c EXCEPT !.trace = <<"crop_to_border">> \o c.trace]
            ELSE LET z == scale_image(c.image, target_size)
                 IN Result(z.exc, z.image, c.rect, c.cropped,
                           <<"crop_to_border">> \o c.trace \o <<"scale_image">> \o z.trace)

\* prepare_form(target_size, border_color) on self.image
prepare_form(image, target_size, border_color, found) ==
    IF border_color \notin COLOR_RANGES
    THEN Result("ValueError", NoImage, NoRect, FALSE, <<>>)    \* Unsupported border color
    ELSE LET c == crop_to_border(image, border_color, DEFAULT_MIN_CONTOUR_AREA, found)
         IN IF c.exc # "none"
            THEN [c EXCEPT !.trace = <<"crop_to_border">> \o c.trace]
            ELSE LET z == scale_image(c.image, target_size)
                 IN Result(z.exc, z.image, c.rect, c.cropped,
                           <<"crop_to_border">> \o c.trace \o <<"scale_image">> \o z.trace)

(***************************************************************************)
(* Loading the image, and one image of a batch.                            *)
(***************************************************************************)
\* the image cv2.imread gives for a file it can read
LoadedImage == SourceImage(60, 50)

\* variant: the docstring's "ValueError: If the image can't be read properly"
_load_image_as_documented(file) ==
    IF file = "image" THEN Result("none", LoadedImage, NoRect, FALSE, <<>>)
    ELSE IF file = "missing" THEN Result("FileNotFoundError", NoImage, NoRect, FALSE, <<>>)
    ELSE Result("ValueError", NoImage, NoRect, FALSE, <<>>)

\* image = cv2.imread(image_path)
\* if image is None: raise FileNotFoundError(f"Could not load image at {image_path}")
\* cv2.imread gives None for a file that is missing and for one it cannot decode
_load_image(file) ==
    IF file = "image" THEN Result("none", LoadedImage, NoRect, FALSE, <<>>)
    ELSE Result("FileNotFoundError", NoImage, NoRect, FALSE, <<>>)

\* what a batch caller does with one image and records for it: the
\* constructor loads the image, prepare_form prepares it, and an exception
\* of either is recorded under its name
process_one(item) ==
    LET loaded == _load_image(item.file) IN
    IF loaded.exc # "none" THEN loaded.exc
    ELSE LET r == prepare_form(loaded.image, <<1024, 768>>, item.color, <<>>)
         IN IF r.exc # "none" THEN r.exc ELSE "prepared"

(***************************************************************************)
(* Pixel arithmetic of OpenCV and numpy on 8-bit images.  An image with    *)
(* pixels is a sequence of pixels; a BGR or HSV pixel is a triple of       *)
(* samples, a gray pixel is one sample.                                    *)
(***************************************************************************)
\* saturate_cast<uchar>
saturate_cast(x) == Min2(255, Max2(0, x))

\* cvRound(num / den), den > 0: to the nearest integer, ties to even
cvRound(num, den) ==
    LET q == (2 * num + den) \div (2 * den)
    IN IF (2 * num + den) % (2 * den) = 0 /\ q % 2 = 1 THEN q - 1 ELSE q

\* cv2.cvtColor(image, cv2.COLOR_BGR2GRAY) on one pixel
BGR2GRAY(px) == (px[1] * 1868 + px[2] * 9617 + px[3] * 4899 + 8192) \div 16384

\* cv2.cvtColor(image, cv2.COLOR_BGR2HSV) on one pixel: H in 0..179
BGR2HSV(px) ==
    LET b == px[1]
        g == px[2]
        r == px[3]
        v == Max2(b, Max2(g, r))
        lo == Min2(b, Min2(g, r))
        diff == v - lo
        sat == IF v = 0 THEN 0 ELSE cvRound(255 * diff, v)
        deg == IF diff = 0 THEN 0
               ELSE IF v = r THEN cvRound(60 * (g - b), diff)
               ELSE IF v = g THEN 120 + cvRound(60 * (b - r), diff)
               ELSE 240 + cvRound(60 * (r - g), diff)
        hue == cvRound(IF deg < 0 THEN deg + 360 ELSE deg, 2) % 180
    IN <<hue, sat, v>>

\* cv2.add(src, scalar) on one channel
cv2_add(sample, scalar) == saturate_cast(sample + scalar)

\* cv2.add(image, scalar) on a BGR pixel; the binding turns a Python number
\* into the scalar (s, 0, 0, 0) or into (s, s, s, s), depending on its version
cv2_add_pixel(px, scalar, all_channels) ==
    <<cv2_add(px[1], scalar),
      IF all_channels THEN cv2_add(px[2], scalar) ELSE px[2],
      IF all_channels THEN cv2_add(px[3], scalar) ELSE px[3]>>

\* cv2.addWeighted(src, alpha, src, 0, gamma) on one channel, with
\* alpha = an / ad and gamma = gn / ad
cv2_addWeighted(sample, an, ad, gn) == saturate_cast(cvRound(sample * an + gn, ad))

\* variant: a sample equal to the threshold passes
cv2_threshold_at_least(sample, thresh, maxval) == IF sample >= thresh THEN maxval ELSE 0

\* cv2.threshold(gray, thresh, maxval, cv2.THRESH_BINARY) on one sample
cv2_threshold(sample, thresh, maxval) == IF sample > thresh THEN maxval ELSE 0

\* np.clip(x, 0, 255) and .astype(np.uint8) on one sample
np_clip(x, lo, hi) == Min2(hi, Max2(lo, x))
astype_uint8(x) == x % 256

MapSeq(seq, F(_)) == [i \in DOMAIN seq |-> F(seq[i])]

\* int(x) of the float num / den: towards zero
int_div(num, den) == IF num >= 0 THEN num \div den ELSE -((-num) \div den)

(***************************************************************************)
(* ImagePreprocessor: static methods on images.  The result of a call is   *)
(* [exc, image, hsv]; image is the returned image, hsv is the local hsv    *)
(* array of enhance_saturation after the assignment to its second channel. *)
(***************************************************************************)
PixResult(exc, image, hsv) == [exc |-> exc, image |-> image, hsv |-> hsv]

\* gray = cvtColor(image, BGR2GRAY); _, binary = threshold(gray, threshold, 255, THRESH_BINARY)
binarize_image(image, threshold) ==
    LET gray_image == MapSeq(image, BGR2GRAY)
        binary_image == MapSeq(gray_image, LAMBDA gy : cv2_threshold(gy, threshold, 255))
    IN PixResult("none", binary_image, <<>>)

\* variant: the sliders are not re-centred on 50
adjust_brightness_contrast_uncentred(image, brightness, contrast, all_channels) ==
    LET b == int_div(brightness * 255, 100)
        c == int_div(contrast * 255, 100)
        Final(px) == MapSeq(px, LAMBDA x : astype_uint8(np_clip(x, 0, 255)))
    IN IF c # 0
       THEN IF 127 - c = 0
            THEN PixResult("ZeroDivisionError", <<>>, <<>>)
            ELSE LET an == 127 + c
                     ad == 127 - c
                     gn == b * ad - an * 127
                     Weighted(px) == MapSeq(px, LAMBDA x : cv2_addWeighted(x, an, ad, gn))
                 IN PixResult("none", MapSeq(MapSeq(image, Weighted), Final), <<>>)
       ELSE LET Added(px) == cv2_add_pixel(px, b, all_channels)
            IN PixResult("none", MapSeq(MapSeq(image, Added), Final), <<>>)

\* brightness = int((brightness - 50) * 2.55); contrast = int((contrast - 50) * 2.55)
\* if contrast != 0:
\*     factor = (127 * (1 + contrast / 127)) / (127 * (1 - contrast / 127))
\*     image = cv2.addWeighted(image, factor, image, 0, brightness - factor * 127)
\* else:
\*     image = cv2.add(image, brightness)
\* return np.clip(image, 0, 255).astype(np.uint8)
adjust_brightness_contrast(image, brightness, contrast, all_channels) ==
    LET b == int_div((brightness - 50) * 255, 100)
        c == int_div((contrast - 50) * 255, 100)
        Final(px) == MapSeq(px, LAMBDA x : astype_uint8(np_clip(x, 0, 255)))
    IN IF c # 0
       THEN IF 127 - c = 0
            THEN PixResult("ZeroDivisionError", <<>>, <<>>)   \* 127 * (1 - contrast / 127) = 0.0
            ELSE LET an == 127 + c                             \* factor = an / ad
                     ad == 127 - c
                     gn == b * ad - an * 127                   \* brightness - factor * 127
                     Weighted(px) == MapSeq(px, LAMBDA x : cv2_addWeighted(x, an, ad, gn))
                 IN PixResult("none", MapSeq(MapSeq(image, Weighted), Final), <<>>)
       ELSE LET Added(px) == cv2_add_pixel(px, b, all_channels)
            IN PixResult("none", MapSeq(MapSeq(image, Added), Final), <<>>)

\* variant: the boost is added with numpy's +, which wraps modulo 256
enhance_saturation_wrapping(image, saturation_boost) ==
    LET hsv == MapSeq(image, BGR2HSV)
        boosted == MapSeq(hsv, LAMBDA px : <<px[1], (px[2] + saturation_boost) % 256, px[3]>>)
    IN PixResult("none", <<>>, boosted)

\* hsv = cvtColor(image, BGR2HSV); hsv[:, :, 1] = cv2.add(hsv[:, :, 1], saturation_boost)
\* then HSV2BGR, BGR2GRAY and CLAHE, whose pixels are not modelled
enhance_saturation(image, saturation_boost) ==
    LET hsv == MapSeq(image, BGR2HSV)
        boosted == MapSeq(hsv, LAMBDA px : <<px[1], cv2_add(px[2], saturation_boost), px[3]>>)
    IN PixResult("none", <<>>, boosted)

(***************************************************************************)
(* ImageVisualizer: the interactive tuner.                                 *)
(***************************************************************************)
\* @dataclass ImageAdjustments: brightness = 50, contrast = 50, threshold
ImageAdjustments == [brightness |-> 50, contrast |-> 50, threshold |-> 128]

\* cv2.getTrackbarPos of "Brightness", "Contrast" and "Threshold"
_get_trackbar_values(track) == <<track.brightness, track.contrast, track.threshold>>

\* cv2.putText(image, text, ...) for each of the three texts, in place
_overlay_text(image, values) == [image EXCEPT !.drawn = @ \cup {values}]

\* cv2.cvtColor(binary, cv2.COLOR_GRAY2BGR) on one sample
GRAY2BGR(gy) == <<gy, gy, gy>>

\* [exc, image, shares]: shares says that the returned array is the argument
\* itself and not a new array
TunerResult(exc, image, shares) == [exc |-> exc, image |-> image, shares |-> shares]

\* variant: at the default values the argument itself is returned
process_image_uncopied(image, values, all_channels) ==
    IF values = _get_trackbar_values(ImageAdjustments)
    THEN TunerResult("none", image, TRUE)
    ELSE LET adjusted == adjust_brightness_contrast(image.pixels, values[1], values[2],
                                                    all_channels)
         IN IF adjusted.exc # "none"
            THEN TunerResult(adjusted.exc, [pixels |-> <<>>, drawn |-> {}], FALSE)
            ELSE LET binary == binarize_image(adjusted.image, values[3])
                 IN TunerResult("none", [image EXCEPT !.pixels = MapSeq(binary.image, GRAY2BGR)],
                                FALSE)

\* brightness, contrast, threshold = self._get_trackbar_values()
\* if brightness == 50 and contrast == 50 and threshold == <default>: return image.copy()
\* adjusted = ImagePreprocessor.adjust_brightness_contrast(image, brightness, contrast)
\* binary = ImagePreprocessor.binarize_image(adjusted, threshold)
\* return cv2.cvtColor(binary, cv2.COLOR_GRAY2BGR)
process_image(image, values, all_channels) ==
    IF values = _get_trackbar_values(ImageAdjustments)
    THEN TunerResult("none", image, FALSE)
    ELSE LET adjusted == adjust_brightness_contrast(image.pixels, values[1], values[2],
                                                    all_channels)
         IN IF adjusted.exc # "none"
            THEN TunerResult(adjusted.exc, [pixels |-> <<>>, drawn |-> {}], FALSE)
            ELSE LET binary == binarize_image(adjusted.image, values[3])
                 IN TunerResult("none", [image EXCEPT !.pixels = MapSeq(binary.image, GRAY2BGR)],
                                FALSE)

(***************************************************************************)
(* FormUpload: the handlers after their awaits, on the component's state.  *)
(***************************************************************************)
UploadState ==
    [extractedData |-> u_extractedData, validationErrors |-> u_validationErrors,
     showCorrectionForm |-> u_showCorrectionForm]

\* handleFormSubmit from `const result = await response.json()` on; a
\* rejected fetch or json() goes to the catch block
handleFormSubmit(st, response) ==
    IF response.status = 0 \/ ~response.json
    THEN st                                                 \* catch (error): alert
    ELSE IF response.status = 200
    THEN [st EXCEPT !.extractedData = response.data]        \* alert
    ELSE IF response.status = 400
    THEN [st EXCEPT !.extractedData = response.data,
                    !.validationErrors = response.validation_errors,
                    !.showCorrectionForm = TRUE]
    ELSE st                                                 \* console.error, alert

\* variant: the form is closed whatever the answer is
handleCorrectionsSubmit_closing(st, response) ==
    IF response.status = 0 \/ ~response.json
    THEN st
    ELSE [st EXCEPT !.showCorrectionForm = FALSE]

\* handleCorrectionsSubmit from `const result = await response.json()` on
handleCorrectionsSubmit(st, response) ==
    IF response.status = 0 \/ ~response.json
    THEN st                                                 \* catch (error): alert
    ELSE IF response.status = 200
    THEN [st EXCEPT !.showCorrectionForm = FALSE]           \* alert
    ELSE st                                                 \* console.error, alert

\* a JavaScript number: NaN, or the integer n
Number(n) == [nan |-> FALSE, n |-> n]
NaN == [nan |-> TRUE, n |-> 0]

(***************************************************************************)
(* CorrectionForm.                                                         *)
(***************************************************************************)
\* Object.keys(validationErrors).map((field) => ... <input ...>)
CorrectionInputs(validationErrors) == DOMAIN validationErrors

\* setCorrectedData({ ...correctedData, [field]: value })
handleChange(correctedData, field, value) ==
    [f \in DOMAIN correctedData \cup {field} |->
        IF f = field THEN value ELSE correctedData[f]]

(***************************************************************************)
(* FolderScanner, in its two versions: "part_003" (with selectedFiles and  *)
(* the one-second timer) and "FolderProcessor".                            *)
(***************************************************************************)
\* <button onClick={scanDefaultFolder} disabled={processing}>
scanDefaultDisabled_never(processing) == FALSE
scanDefaultDisabled(processing) == processing

\* <button onClick={scanNewFolder} disabled={processing || !folderPath}>
scanNewDisabled(processing, folderPath) == processing \/ folderPath = ""

\* <input type="file" webkitdirectory ... disabled={processing}> in part_003;
\* the input of FolderProcessor is never disabled
folderInputDisabled(version, processing) == version = "part_003" /\ processing

RECURSIVE SumSizes(_)
\* selectedFiles.reduce((acc, file) => acc + file.size, 0)
SumSizes(files) ==
    IF files = <<>> THEN 0 ELSE files[1] + SumSizes(Tail(files))

\* Math.round((uploadedSize / totalSize) * 50); 0 / 0 is NaN
uploadProgress(uploadedSize, totalSize) ==
    IF totalSize = 0
    THEN NaN
    ELSE Number((uploadedSize * 100 + totalSize) \div (2 * totalSize))

\* the values selectedFiles.forEach gives to setProgress, in order
uploadProgressLog(files) ==
    [k \in 1..Len(files) |->
        uploadProgress(SumSizes(SubSeq(files, 1, k)), SumSizes(files))]

\* handleNewFolderSelect, on the state fields it can touch
handleNewFolderSelect(version, st, files) ==
    IF Len(files) = 0
    THEN IF version = "part_003"
         THEN [st EXCEPT !.folderPath = "", !.selectedFiles = <<>>,
                         !.error = "No folder selected!"]
         ELSE [st EXCEPT !.folderPath = ""]
    ELSE IF version = "part_003"
         THEN [folderPath |-> "forms", selectedFiles |-> files,
               error |-> "null", result |-> "null"]
         ELSE [st EXCEPT !.folderPath = "forms", !.result = "null", !.error = "null"]

\* err.message in the catch block of a scan
scanErrorMessage(kind, outcome) ==
    CASE outcome = "rejected" -> "Failed to fetch"
      [] outcome = "not_ok_message" -> "Folder not found"
      [] outcome = "not_ok_plain" ->
            IF kind = "default" THEN "Failed to scan default folder"
                                ELSE "Failed to scan selected folder"
      [] OTHER -> "Unexpected token < in JSON at position 0"

\* finally: setProcessing(false)
processingAfterScan_kept == TRUE
processingAfterScan == FALSE

(***************************************************************************)
(* PatientRecordsDashboard, in its two versions: "archive"                 *)
(* (frontend_old/.../PatientRecordsDashboard.js) and "Settings"            *)
(* (frontend/.../Settings.js).                                             *)
(***************************************************************************)
\* the JavaScript number a / b, kept as a fraction: 0 / 0 is NaN
Quotient(a, b) ==
    IF b = 0
    THEN [kind |-> IF a = 0 THEN "NaN" ELSE "Infinity", n |-> 0, d |-> 1]
    ELSE [kind |-> "number", n |-> a, d |-> b]

\* x.toFixed(2) of the number a / b: the string of a / b rounded to
\* hundredths, kept as the count of hundredths
toFixed2(a, b) == [kind |-> "string", n |-> (200 * a + b) \div (2 * b), d |-> 100]

\* ocr_confidence of a record: a number, or null
Confidence(n) == [null |-> FALSE, n |-> n]
NullConfidence == [null |-> TRUE, n |-> 0]

RECURSIVE SumConfidence(_)
\* data.reduce((acc, curr) => acc + (curr.ocr_confidence || 0), 0)
SumConfidence(items) ==
    IF items = <<>> THEN 0
    ELSE (IF items[1].ocr_confidence.null THEN 0 ELSE items[1].ocr_confidence.n)
         + SumConfidence(Tail(items))

\* records.filter(record => record.ocr_confidence != null)
WithConfidence(items) == SelectSeq(items, LAMBDA rec : ~rec.ocr_confidence.null)

\* Settings.js: calculateAverageConfidence
calculateAverageConfidence(items) ==
    LET confidenceScores == WithConfidence(items)
    IN  IF Len(confidenceScores) > 0
        THEN toFixed2(SumConfidence(confidenceScores), Len(confidenceScores))
        ELSE Quotient(0, 1)

\* the stats fetchRecords computes from the list it received
fetchedStats(version, items) ==
    IF version = "archive"
    THEN [totalRecords |-> Len(items),
          averageConfidence |-> Quotient(SumConfidence(items), Len(items))]
    ELSE [totalRecords |-> Len(items),
          averageConfidence |-> calculateAverageConfidence(items)]

\* what fetchRecords has done to records and stats when it reaches finally,
\* for a request that ended as `outcome`; the archive version throws on a
\* response that is not ok, Settings.js reads every response
fetchRecords(version, st, outcome) ==
    CASE outcome.kind = "rejected" -> st
      [] version = "archive" /\ ~outcome.ok -> st
      [] outcome.kind = "unparseable" -> st
      [] outcome.kind = "no_list" ->
            \* setRecords(data) or setRecords(data.records) has run when
            \* data.reduce or data.records.length throws
            [st EXCEPT !.records = [list |-> FALSE, items |-> <<>>]]
      [] OTHER ->
            [records |-> [list |-> TRUE, items |-> outcome.items],
             stats |-> fetchedStats(version, outcome.items)]

\* handleSort(key), the same in both versions
handleSort_toggling(sortConfig, key) ==
    [key |-> key, direction |-> IF sortConfig.direction = "asc" THEN "desc" ELSE "asc"]
handleSort(sortConfig, key) ==
    [key |-> key,
     direction |-> IF sortConfig.key = key /\ sortConfig.direction = "asc"
                   THEN "desc" ELSE "asc"]

\* the order of < on the strings the records hold
StringOrder == <<"Ann", "Bob", "Cy", "P001", "P002", "P003">>
StringRank(str) == CHOOSE k \in 1..Len(StringOrder) : StringOrder[k] = str

\* a[key] < b[key]; null is 0 in a comparison of numbers
jsLess(key, a, b) ==
    IF key = "ocr_confidence"
    THEN (IF a[key].null THEN 0 ELSE a[key].n) < (IF b[key].null THEN 0 ELSE b[key].n)
    ELSE StringRank(a[key]) < StringRank(b[key])

\* the comparison function handed to sort
compareRecords(sortConfig, a, b) ==
    IF jsLess(sortConfig.key, a, b)
    THEN (IF sortConfig.direction = "asc" THEN -1 ELSE 1)
    ELSE IF jsLess(sortConfig.key, b, a)
         THEN (IF sortConfig.direction = "asc" THEN 1 ELSE -1)
         ELSE 0

RECURSIVE jsSort(_, _)
\* Array.prototype.sort with compareRecords: a stable sort
jsSort(items, sortConfig) ==
    IF items = <<>> THEN <<>>
    ELSE LET n == Len(items)
             front == jsSort(SubSeq(items, 1, n - 1), sortConfig)
             x == items[n]
             keep == {k \in 1..Len(front) : compareRecords(sortConfig, front[k], x) <= 0}
             at == IF keep = {} THEN 0 ELSE CHOOSE k \in keep : \A j \in keep : j <= k
         IN  SubSeq(front, 1, at) \o <<x>> \o SubSeq(front, at + 1, Len(front))

\* value.toLowerCase().includes(searchTerm.toLowerCase()), on the strings
\* of the records and the search terms typed
IncludesLower(value, term) ==
    \/ term = ""
    \/ term = "p00" /\ value \in {"P001", "P002", "P003", "/scans/P001", "/scans/P002",
                                   "/scans/P003"}
    \/ term = "bob" /\ value = "Bob"

\* the filter of the search box
matchesSearch(version, rec, searchTerm) ==
    IF version = "archive"
    THEN \/ IncludesLower(rec.patient_id, searchTerm)
         \/ IncludesLower(rec.patient_name, searchTerm)
         \/ IncludesLower(rec.file_path, searchTerm)
    ELSE \/ IncludesLower(rec.patient_id, searchTerm)
         \/ IncludesLower(rec.patient_name, searchTerm)
         \/ IncludesLower(rec.file_path, searchTerm)
         \/ (~rec.ocr_confidence.null /\ searchTerm = "")

\* the filteredRecords of a render: `view` is the list shown and `stored`
\* is the array held in `records` afterwards; spreading or filtering
\* something that is not a list throws and the render fails
filteredRecords(version, records, searchTerm, sortConfig) ==
    IF ~records.list
    THEN [stored |-> records, view |-> [crashed |-> TRUE, items |-> <<>>]]
    ELSE LET copy == records.items
             filtered ==
                 IF version = "archive"
                 THEN LET found == IF searchTerm # ""
                                   THEN SelectSeq(copy,
                                          LAMBDA rec : matchesSearch(version, rec, searchTerm))
                                   ELSE copy
                      IN  IF sortConfig.key # "null" THEN jsSort(found, sortConfig)
                                                     ELSE found
                 ELSE LET sortedRecords == IF sortConfig.key = "null" THEN copy
                                           ELSE jsSort(copy, sortConfig)
                      IN  SelectSeq(sortedRecords,
                                    LAMBDA rec : matchesSearch(version, rec, searchTerm))
         IN  [stored |-> records, view |-> [crashed |-> FALSE, items |-> filtered]]

(***************************************************************************)
(* DatabaseManagement.  lastBackup holds new Date().toLocaleString(), a    *)
(* text of the second it was taken in: it is kept as that second, and 0    *)
(* stands for null.                                                        *)
(***************************************************************************)
\* <button onClick={handleBackup} disabled={isBackingUp}>
backupDisabled(isBackingUp) == isBackingUp

\* if (data.success), for the response the backup request ended with
backupSucceeded_always(outcome) == TRUE
backupSucceeded(outcome) == outcome = "success_true"

\* handleBackup from await fetch to finally: the lastBackup it leaves
handleBackup(lastBackup, outcome, now) ==
    IF outcome \in {"rejected", "unparseable"}
    THEN lastBackup
    ELSE IF backupSucceeded(outcome) THEN now ELSE lastBackup

(***************************************************************************)
(* Images, contours and sizes handed to the preparer.                      *)
(***************************************************************************)
\* (width, height) of the source image
ImageSizes == {<<60, 50>>, <<50, 60>>}
ScaleSizes == ImageSizes \cup {<<1, 1>>, <<2000, 10>>}
\* target_size; (1024, 768) is the default of prepare_form
Targets == {<<1024, 768>>, <<768, 1024>>, <<50, 60>>}
Colors == COLOR_RANGES \cup {"red"}
MinAreas == {DEFAULT_MIN_CONTOUR_AREA, DEFAULT_MIN_CONTOUR_AREA + 1}
Areas == {DEFAULT_MIN_CONTOUR_AREA - 1, DEFAULT_MIN_CONTOUR_AREA,
          DEFAULT_MIN_CONTOUR_AREA + 1, DEFAULT_MIN_CONTOUR_AREA + 500}

\* distances of a bounding rectangle from the image edges: touching, inside
\* the padding, exactly the padding, beyond the padding
Margins == {0, padding - 1, padding, MaxMargin}

Contour(a, sz, l, r, t, b) ==
    [area |-> a, x |-> l, y |-> t, w |-> sz[1] - l - r, h |-> sz[2] - t - b]

ContoursIn(sz) ==
    {Contour(a, sz, l, r, t, b) : a \in Areas, l \in Margins, r \in Margins,
                                  t \in Margins, b \in Margins}
FewContoursIn(sz) ==
    {Contour(a, sz, m, m, m, m) : a \in Areas, m \in {0, MaxMargin}}

ContourLists(sz) ==
    {<<>>} \cup {<<c>> : c \in ContoursIn(sz)}
           \cup UNION {[1 .. n -> FewContoursIn(sz)] : n \in 2 .. MaxContours}

NoResult == Result("none", NoImage, NoRect, FALSE, <<>>)

(***************************************************************************)
(* The state machine: one call of an entry point per behaviour.            *)
(***************************************************************************)
ValidatorIdle ==
    /\ data = EmptyDict
    /\ v_pc = "idle"
    /\ v_out = [exc |-> "none", errors |-> EmptyDict]

PreparerIdle ==
    /\ img = NoImage
    /\ contours = <<>>
    /\ color = "blue"
    /\ min_area = DEFAULT_MIN_CONTOUR_AREA
    /\ target = <<1024, 768>>
    /\ p_pc = "idle"
    /\ p_call = "none"
    /\ p_out = NoResult

\* BGR pixels: black, white, mid grays, and saturated and mixed colours
Pixels == {<<0, 0, 0>>, <<255, 255, 255>>, <<127, 127, 127>>, <<128, 128, 128>>,
           <<255, 0, 0>>, <<10, 200, 30>>, <<200, 100, 50>>, <<1, 2, 254>>}
PixelImages == UNION {[1 .. n -> Pixels] : n \in 1 .. MaxPixels}
\* positions of the brightness and contrast sliders (0..100)
BrightnessValues == {0, 10, 50, 51, 90, 100}
ContrastValues == {0, 25, 50, 51, 75, 99, 100}
\* positions of the threshold slider (0..255)
ThresholdValues == {0, 127, 128, 254, 255}
BoostValues == {0 - 300, 0 - 56, 0, 1, 100, 300}

Args(image, brightness, contrast, threshold, boost, all_channels) ==
    [image |-> image, brightness |-> brightness, contrast |-> contrast,
     threshold |-> threshold, boost |-> boost, all_channels |-> all_channels]

NoPixResult == PixResult("none", <<>>, <<>>)

PreprocessorIdle ==
    /\ a_call = "none"
    /\ a_args = Args(<<>>, 50, 50, 0, 0, FALSE)
    /\ a_pc = "idle"
    /\ a_out = NoPixResult

\* an array with text drawn on it: the pixels before the drawing, and the
\* trackbar values whose text cv2.putText has drawn over them
Array(pixels, drawn) == [pixels |-> pixels, drawn |-> drawn]
NoFrame == Array(<<>>, {})

TunerIdle ==
    /\ t_pc = "idle"
    /\ t_image = NoFrame
    /\ t_track = ImageAdjustments
    /\ t_frame = NoFrame
    /\ t_key = "none"
    /\ t_all_channels = FALSE

\* a response as a handler sees it: fetch rejects (status 0), or it gives a
\* status and a body that response.json() parses or rejects
Response(status, json, result_data, result_errors) ==
    [status |-> status, json |-> json, data |-> result_data,
     validation_errors |-> result_errors]
NoResponse == [url |-> "none", response |-> Response(0, FALSE, "undefined", "undefined")]

UploadIdle ==
    /\ u_file = "null"
    /\ u_extractedData = "{}"
    /\ u_validationErrors = "{}"
    /\ u_showCorrectionForm = FALSE
    /\ u_fetch = <<>>
    /\ u_last = NoResponse

BatchIdle ==
    /\ b_batch = <<>>
    /\ b_outcomes = <<>>
    /\ b_pc = "idle"

WorkersIdle ==
    /\ w_frames = <<>>
    /\ w_overlap = FALSE


CorrectionIdle ==
    /\ c_data = EmptyDict
    /\ c_validationErrors = EmptyDict
    /\ c_correctedData = EmptyDict
    /\ c_edited = {}
    /\ c_pc = "idle"
    /\ c_submitted = EmptyDict

FolderIdle ==
    /\ f_version = "none"
    /\ f_folderPath = ""
    /\ f_selectedFiles = <<>>
    /\ f_processing = FALSE
    /\ f_progress = Number(0)
    /\ f_result = "null"
    /\ f_error = "null"
    /\ f_scans = <<>>
    /\ f_log = <<>>
    /\ f_last = [kind |-> "none", set |-> {}]

RecordsIdle ==
    /\ r_version = "none"
    /\ r_records = [list |-> TRUE, items |-> <<>>]
    /\ r_loading = FALSE
    /\ r_stats = [totalRecords |-> 0, averageConfidence |-> Quotient(0, 1)]
    /\ r_sortConfig = [key |-> "null", direction |-> "asc"]
    /\ r_searchTerm = ""
    /\ r_fetch = 0
    /\ r_view = [crashed |-> FALSE, items |-> <<>>]
    /\ r_last = "none"

DatabaseIdle ==
    /\ d_isBackingUp = FALSE
    /\ d_isOptimizing = FALSE
    /\ d_lastBackup = 0
    /\ d_fetch = 0
    /\ d_clock = 0
    /\ d_last = "none"

FrontendIdle == CorrectionIdle /\ FolderIdle /\ RecordsIdle /\ DatabaseIdle
NewIdle ==
    PreprocessorIdle /\ TunerIdle /\ UploadIdle /\ BatchIdle /\ WorkersIdle /\ FrontendIdle

InitValidator ==
    /\ data \in SingleFieldMaps \cup ManyFieldMaps
    /\ v_pc = "ready"
    /\ v_out = [exc |-> "none", errors |-> EmptyDict]
    /\ PreparerIdle
    /\ NewIdle

InitPreparer ==
    /\ ValidatorIdle
    /\ NewIdle
    /\ p_pc = "ready"
    /\ p_out = NoResult
    /\ \/ /\ p_call = "scale_image"
          /\ \E sz \in ScaleSizes : img = SourceImage(sz[1], sz[2])
          /\ target \in Targets
          /\ color = "blue"
          /\ min_area = DEFAULT_MIN_CONTOUR_AREA
          /\ contours = <<>>
       \/ /\ p_call = "crop_to_border"
          /\ \E sz \in ImageSizes :
                /\ img = SourceImage(sz[1], sz[2])
                /\ contours \in ContourLists(sz)
          /\ color \in Colors
          /\ min_area \in MinAreas
          /\ target = <<1024, 768>>
       \/ /\ p_call = "prepare_form"
          /\ \E sz \in ImageSizes :
                /\ img = SourceImage(sz[1], sz[2])
                /\ contours \in ContourLists(sz)
          /\ color \in Colors
          /\ min_area = DEFAULT_MIN_CONTOUR_AREA
          /\ target \in Targets

InitPreprocessor ==
    /\ ValidatorIdle
    /\ PreparerIdle
    /\ FrontendIdle
    /\ TunerIdle
    /\ UploadIdle
    /\ WorkersIdle
    /\ BatchIdle
    /\ a_pc = "ready"
    /\ a_out = NoPixResult
    /\ \/ /\ a_call = "adjust_brightness_contrast"
          /\ \E im \in PixelImages, b \in BrightnessValues, c \in ContrastValues,
                all \in BOOLEAN : a_args = Args(im, b, c, 0, 0, all)
       \/ /\ a_call = "binarize_image"
          /\ \E im \in PixelImages, t \in ThresholdValues :
                a_args = Args(im, 50, 50, t, 0, FALSE)
       \/ /\ a_call = "enhance_saturation"
          /\ \E im \in PixelImages, boost \in BoostValues :
                a_args = Args(im, 50, 50, 0, boost, FALSE)

\* the images and trackbar positions of a tuning session
TunerPixels == {<<128, 128, 128>>, <<10, 200, 30>>, <<255, 255, 255>>}
TunerImages == UNION {[1 .. n -> TunerPixels] : n \in 1 .. MaxPixels}
TrackbarValues == [brightness : {0, 50, 90}, contrast : {0, 50, 100},
                   threshold : {0, ImageAdjustments.threshold, 255}]
Keys == {"none", "q", "other"}

\* main(): visualizer = ImageVisualizer(); visualizer.visualize(prepared_form)
InitTuner ==
    /\ ValidatorIdle
    /\ PreparerIdle
    /\ FrontendIdle
    /\ PreprocessorIdle
    /\ UploadIdle
    /\ WorkersIdle
    /\ BatchIdle
    /\ t_pc = "start"
    /\ \E im \in TunerImages : t_image = Array(im, {})
    /\ t_track = ImageAdjustments        \* self.adjustments = ImageAdjustments()
    /\ t_frame = NoFrame
    /\ t_key = "none"
    /\ t_all_channels \in BOOLEAN

\* the files the operator may pick and what the server may answer
Files == {"form1.png", "form2.png"}
DataValues == {"data1", "data2"}
ErrorValues == {"errors1", "errors2"}
Responses ==
    {Response(0, FALSE, "undefined", "undefined")}                  \* fetch rejects
    \cup {Response(st, FALSE, "undefined", "undefined") : st \in {200, 400, 500}}
    \cup {Response(200, TRUE, d, "undefined") : d \in DataValues}
    \cup {Response(400, TRUE, d, e) : d \in DataValues, e \in ErrorValues}
    \cup {Response(500, TRUE, "undefined", "undefined")}

\* useState(null), useState({}), useState({}), useState(false)
InitUpload ==
    /\ ValidatorIdle
    /\ PreparerIdle
    /\ FrontendIdle
    /\ PreprocessorIdle
    /\ TunerIdle
    /\ UploadIdle
    /\ WorkersIdle
    /\ BatchIdle

\* the files of a batch: one cv2.imread reads, one that is not there, one it
\* cannot decode; and the border colour asked for each
FileKinds == {"image", "missing", "unreadable"}
BatchItems == [file : FileKinds, color : {"blue", "red"}]
Batches == UNION {[1 .. n -> BatchItems] : n \in 1 .. MaxBatch}

\* a batch caller about to go through its images
InitBatch ==
    /\ ValidatorIdle
    /\ PreparerIdle
    /\ FrontendIdle
    /\ PreprocessorIdle
    /\ TunerIdle
    /\ UploadIdle
    /\ WorkersIdle
    /\ b_batch \in Batches
    /\ b_outcomes = <<>>
    /\ b_pc = "running"

\* the two batch workers and the calls they make, each with its own
\* RequestFormPreparer (its own self.image) or its own field map
Workers == {1, 2}
WorkerContours(sz) ==
    {<<>>, <<Contour(DEFAULT_MIN_CONTOUR_AREA + 500, sz, MaxMargin, MaxMargin, MaxMargin,
                     MaxMargin)>>}
WorkerMaps ==
    {[f \in S |-> Sample(f, good)] :
        S \in {{"medicare_number"}, {"medicare_number", "date_of_birth"}}, good \in BOOLEAN}
Job(kind, image, border_color, found, d) ==
    [kind |-> kind, image |-> image, color |-> border_color, found |-> found, data |-> d]
Jobs ==
    UNION {{Job("prepare_form", SourceImage(sz[1], sz[2]), c, f, EmptyDict) :
               c \in {"blue", "red"}, f \in WorkerContours(sz)} : sz \in ImageSizes}
    \cup {Job("validate_data", NoImage, "blue", <<>>, d) : d \in WorkerMaps}

NoErrors == [exc |-> "none", errors |-> EmptyDict]
Frame(job) ==
    [job |-> job, pc |-> "ready", cropped_image |-> NoImage, errors |-> NoErrors,
     exc |-> "none", image |-> NoImage, result |-> EmptyDict]

InitWorkers ==
    /\ ValidatorIdle
    /\ PreparerIdle
    /\ FrontendIdle
    /\ PreprocessorIdle
    /\ TunerIdle
    /\ UploadIdle
    /\ BatchIdle
    /\ \E j1 \in Jobs, j2 \in Jobs : w_frames = <<Frame(j1), Frame(j2)>>
    /\ w_overlap = FALSE

\* what FormUpload may hand to CorrectionForm as data and validationErrors,
\* and what the operator may type into an input
DataProps ==
    {[patient_name |-> "Jo", medicare_number |-> "123"],
     [patient_name |-> "Al", medicare_number |-> "999", date_of_birth |-> "31/02/2020"]}
ErrorProps ==
    {[medicare_number |-> "Invalid Medicare Number format."],
     [date_of_birth |-> "Invalid Date of Birth format."],
     [medicare_number |-> "Invalid Medicare Number format.",
      date_of_birth |-> "Invalid Date of Birth format."]}
TypedValues == {"", "1234567890"}

\* CorrectionForm is mounted: useState(data)
InitCorrection ==
    /\ ValidatorIdle
    /\ PreparerIdle
    /\ PreprocessorIdle /\ TunerIdle /\ UploadIdle /\ BatchIdle /\ WorkersIdle
    /\ FolderIdle /\ RecordsIdle /\ DatabaseIdle
    /\ c_data \in DataProps
    /\ c_validationErrors \in ErrorProps
    /\ c_correctedData = c_data
    /\ c_edited = {}
    /\ c_pc = "mounted"
    /\ c_submitted = EmptyDict

MaxFiles == 2
MaxScans == 2
FileSizes == {0, 1, 3}
RECURSIVE SeqsUpTo(_, _)
SeqsUpTo(S, n) ==
    IF n = 0 THEN {<<>>}
    ELSE LET shorter == SeqsUpTo(S, n - 1)
         IN  shorter \cup {Append(q, x) : q \in shorter, x \in S}
\* the files of the folder the operator picks, each by its size
FolderSelections == SeqsUpTo(FileSizes, MaxFiles)
\* how a scan request may end
FetchOutcomes == {"ok", "rejected", "not_ok_message", "not_ok_plain", "not_ok_unparseable"}
BodyOutcomes == {"data", "unparseable"}

\* FolderScanner is mounted
InitFolder ==
    /\ ValidatorIdle
    /\ PreparerIdle
    /\ PreprocessorIdle /\ TunerIdle /\ UploadIdle /\ BatchIdle /\ WorkersIdle
    /\ CorrectionIdle /\ RecordsIdle /\ DatabaseIdle
    /\ f_version \in {"part_003", "FolderProcessor"}
    /\ f_folderPath = ""
    /\ f_selectedFiles = <<>>
    /\ f_processing = FALSE
    /\ f_progress = Number(0)
    /\ f_result = "null"
    /\ f_error = "null"
    /\ f_scans = <<>>
    /\ f_log = <<>>
    /\ f_last = [kind |-> "none", set |-> {}]

MaxFetches == 2
Ann == [patient_id |-> "P001", patient_name |-> "Ann", file_path |-> "/scans/P001",
        ocr_confidence |-> Confidence(100)]
Bob == [patient_id |-> "P002", patient_name |-> "Bob", file_path |-> "/scans/P002",
        ocr_confidence |-> Confidence(75)]
Cy == [patient_id |-> "P003", patient_name |-> "Cy", file_path |-> "/scans/P003",
       ocr_confidence |-> NullConfidence]
\* the record lists the server may answer with
RecordLists == {<<>>, <<Cy>>, <<Bob, Ann>>, <<Bob, Cy, Ann>>}
\* how a fetchRecords request may end
RecordsOutcomes ==
    {[kind |-> "rejected", ok |-> FALSE, items |-> <<>>]}
    \cup {[kind |-> "list", ok |-> TRUE, items |-> items] : items \in RecordLists}
    \cup {[kind |-> k, ok |-> ok, items |-> <<>>] :
             k \in {"no_list", "unparseable"}, ok \in BOOLEAN}
SortKeys == {"patient_id", "patient_name", "ocr_confidence"}
SearchTerms == {"", "p00", "bob"}

\* PatientRecordsDashboard is constructed; its mount effect has not run
InitRecords ==
    /\ ValidatorIdle
    /\ PreparerIdle
    /\ PreprocessorIdle /\ TunerIdle /\ UploadIdle /\ BatchIdle /\ WorkersIdle
    /\ CorrectionIdle /\ FolderIdle /\ DatabaseIdle
    /\ r_version \in {"archive", "Settings"}
    /\ r_records = [list |-> TRUE, items |-> <<>>]
    /\ r_loading = FALSE
    /\ r_stats = [totalRecords |-> 0, averageConfidence |-> Quotient(0, 1)]
    /\ r_sortConfig = [key |-> "null", direction |-> "asc"]
    /\ r_searchTerm = ""
    /\ r_fetch = 0
    /\ r_view = [crashed |-> FALSE, items |-> <<>>]
    /\ r_last = "constructed"

MaxClock == 3
MaxBackups == 2
\* how a backup request may end: no response, a body that is not JSON, or a
\* JSON object whose success is true, false or absent
BackupOutcomes == {"rejected", "unparseable", "success_true", "success_false", "success_absent"}

\* DatabaseManagement is mounted
InitDatabase ==
    /\ ValidatorIdle
    /\ PreparerIdle
    /\ PreprocessorIdle /\ TunerIdle /\ UploadIdle /\ BatchIdle /\ WorkersIdle
    /\ CorrectionIdle /\ FolderIdle /\ RecordsIdle
    /\ d_isBackingUp = FALSE
    /\ d_isOptimizing = FALSE
    /\ d_lastBackup = 0
    /\ d_fetch = 0
    /\ d_clock = 1
    /\ d_last = "none"

Init == InitValidator \/ InitPreparer \/ InitPreprocessor \/ InitTuner \/ InitUpload
        \/ InitBatch \/ InitWorkers \/ InitCorrection \/ InitFolder \/ InitRecords
        \/ InitDatabase

\* Validator.validate_data(data)
Validate ==
    /\ v_pc = "ready"
    /\ LET r == validate_data(data) IN
         /\ v_out' = r
         /\ v_pc' = IF r.exc = "none" THEN "returned" ELSE "raised"
    /\ UNCHANGED <<data, p_vars, new_vars>>

Finish(r) ==
    /\ p_out' = r
    /\ p_pc' = IF r.exc = "none" THEN "returned" ELSE "raised"
    /\ UNCHANGED <<img, contours, color, min_area, target, p_call, v_vars, new_vars>>

\* preparer.crop_to_border(image, border_color, min_contour_area)
CallCropToBorder ==
    /\ p_pc = "ready"
    /\ p_call = "crop_to_border"
    /\ Finish(crop_to_border(img, color, min_area, contours))

\* preparer.prepare_form(target_size, border_color)
CallPrepareForm ==
    /\ p_pc = "ready"
    /\ p_call = "prepare_form"
    /\ Finish(prepare_form(img, target, color, contours))

\* preparer.scale_image(image, target_size)
CallScaleImage ==
    /\ p_pc = "ready"
    /\ p_call = "scale_image"
    /\ Finish(scale_image(img, target))

FinishPix(r) ==
    /\ a_out' = r
    /\ a_pc' = IF r.exc = "none" THEN "returned" ELSE "raised"
    /\ UNCHANGED <<a_call, a_args, v_vars, p_vars, but_a>>

\* ImagePreprocessor.adjust_brightness_contrast(image, brightness, contrast)
CallAdjust ==
    /\ a_pc = "ready"
    /\ a_call = "adjust_brightness_contrast"
    /\ FinishPix(adjust_brightness_contrast(a_args.image, a_args.brightness,
                                            a_args.contrast, a_args.all_channels))

\* ImagePreprocessor.binarize_image(image, threshold)
CallBinarize ==
    /\ a_pc = "ready"
    /\ a_call = "binarize_image"
    /\ FinishPix(binarize_image(a_args.image, a_args.threshold))

\* preparer.enhance_saturation(image, saturation_boost, contrast_clip_limit)
CallEnhanceSaturation ==
    /\ a_pc = "ready"
    /\ a_call = "enhance_saturation"
    /\ FinishPix(enhance_saturation(a_args.image, a_args.boost))

NextValidator == Validate
NextPreparer == CallCropToBorder \/ CallPrepareForm \/ CallScaleImage
NextPreprocessor == CallAdjust \/ CallBinarize \/ CallEnhanceSaturation

\* self._create_window(): the window and its trackbars, each at the value of
\* self.adjustments
CreateWindow ==
    /\ t_pc = "start"
    /\ t_pc' = "Rendering"
    /\ t_track' = ImageAdjustments
    /\ UNCHANGED <<t_image, t_frame, t_key, t_all_channels, v_vars, p_vars, but_t>>

\* display_image = self.process_image(image)
\* display_image = self._overlay_text(display_image, self._get_trackbar_values())
\* cv2.imshow(self.window_name, display_image)
\* An exception leaves visualize and main, and the process ends with its window.
Render ==
    /\ t_pc = "Rendering"
    /\ LET r == process_image(t_image, _get_trackbar_values(t_track), t_all_channels) IN
         IF r.exc # "none"
         THEN /\ t_pc' = "raised"
              /\ t_frame' = NoFrame
              /\ UNCHANGED t_image
         ELSE LET display_image == _overlay_text(r.image, _get_trackbar_values(t_track)) IN
              /\ t_pc' = "Idle"
              /\ t_frame' = display_image
              /\ t_image' = IF r.shares THEN display_image ELSE t_image
    /\ UNCHANGED <<t_track, t_key, t_all_channels, v_vars, p_vars, but_t>>

\* if cv2.waitKey(1) & 0xFF == ord('q'): break, then cv2.destroyAllWindows().
\* waitKey runs the window's events: the operator moves trackbars and may
\* press a key.
WaitKey ==
    /\ t_pc = "Idle"
    /\ t_track' \in TrackbarValues
    /\ t_key' \in Keys
    /\ IF t_key' = "q"
       THEN t_pc' = "closed" /\ t_frame' = NoFrame
       ELSE t_pc' = "Rendering" /\ UNCHANGED t_frame
    /\ UNCHANGED <<t_image, t_all_channels, v_vars, p_vars, but_t>>

NextTuner == CreateWindow \/ Render \/ WaitKey

Remove(seq, i) == SubSeq(seq, 1, i - 1) \o SubSeq(seq, i + 1, Len(seq))

\* handleFileChange: the file input is on the upload form only
FileChange ==
    /\ ~u_showCorrectionForm
    /\ u_file' \in Files
    /\ UNCHANGED <<u_extractedData, u_validationErrors, u_showCorrectionForm, u_fetch, u_last,
                   v_vars, p_vars, but_u>>

\* handleFormSubmit up to its first await: without a file it alerts and
\* returns, with one it posts the file to /process-form
FormSubmit ==
    /\ ~u_showCorrectionForm
    /\ u_file # "null"
    /\ Len(u_fetch) < MaxInFlight
    /\ u_fetch' = Append(u_fetch, [url |-> "process-form", body |-> u_file])
    /\ UNCHANGED <<u_file, u_extractedData, u_validationErrors, u_showCorrectionForm, u_last,
                   v_vars, p_vars, but_u>>

\* CorrectionForm calls onSubmit: handleCorrectionsSubmit up to its first await
CorrectionsSubmit ==
    /\ u_showCorrectionForm
    /\ Len(u_fetch) < MaxInFlight
    /\ u_fetch' = Append(u_fetch, [url |-> "submit-corrections", body |-> u_extractedData])
    /\ UNCHANGED <<u_file, u_extractedData, u_validationErrors, u_showCorrectionForm, u_last,
                   v_vars, p_vars, but_u>>

\* a handler resumes at position i of u_fetch and leaves the state st
Resume(i, response, st) ==
    /\ u_extractedData' = st.extractedData
    /\ u_validationErrors' = st.validationErrors
    /\ u_showCorrectionForm' = st.showCorrectionForm
    /\ u_fetch' = Remove(u_fetch, i)
    /\ u_last' = [url |-> u_fetch[i].url, response |-> response]
    /\ UNCHANGED <<u_file, v_vars, p_vars, but_u>>

\* handleFormSubmit resumes with the answer of /process-form
FormResponse ==
    \E i \in 1 .. Len(u_fetch), response \in Responses :
        /\ u_fetch[i].url = "process-form"
        /\ Resume(i, response, handleFormSubmit(UploadState, response))

\* handleCorrectionsSubmit resumes with the answer of /submit-corrections
CorrectionsResponse ==
    \E i \in 1 .. Len(u_fetch), response \in Responses :
        /\ u_fetch[i].url = "submit-corrections"
        /\ Resume(i, response, handleCorrectionsSubmit(UploadState, response))

NextUpload == FileChange \/ FormSubmit \/ CorrectionsSubmit \/ FormResponse \/ CorrectionsResponse
\* the batch caller takes its next image: RequestFormPreparer(image_path),
\* then prepare_form(border_color=...); it records the failure by its name and
\* goes on to the image after it
ProcessImage ==
    /\ b_pc = "running"
    /\ LET item == b_batch[Len(b_outcomes) + 1]
           outcome == process_one(item)
       IN /\ b_outcomes' = Append(b_outcomes, outcome)
          /\ b_pc' = IF Len(b_outcomes) + 1 = Len(b_batch) THEN "done" ELSE "running"
    /\ UNCHANGED <<b_batch, v_vars, p_vars, but_b>>

NextBatch == ProcessImage

\* worker w takes a step that leaves the frames fs, its own position pc
\* and, when it returns or raises, its outcome
Step(w, fs, pc, exc, image, result) ==
    /\ w_frames' = [fs EXCEPT ![w].pc = pc, ![w].exc = exc, ![w].image = image,
                              ![w].result = result]
    /\ w_overlap' = (w_overlap \/ \E v \in Workers \ {w} :
                                     w_frames[v].pc \notin {"ready", "done"})
    /\ UNCHANGED <<v_vars, p_vars, but_w>>

Running(w, kind, pc) == w_frames[w].job.kind = kind /\ w_frames[w].pc = pc

\* prepare_form: if border_color not in self.COLOR_RANGES: raise ValueError(...)
PrepareCheck(w) ==
    /\ Running(w, "prepare_form", "ready")
    /\ IF w_frames[w].job.color \notin COLOR_RANGES
       THEN Step(w, w_frames, "done", "ValueError", NoImage, EmptyDict)
       ELSE Step(w, w_frames, "crop_to_border", "none", NoImage, EmptyDict)

\* prepare_form: cropped_image = self.crop_to_border(self.image, border_color)
PrepareCrop(w) ==
    /\ Running(w, "prepare_form", "crop_to_border")
    /\ LET job == w_frames[w].job
           c == crop_to_border(job.image, job.color, DEFAULT_MIN_CONTOUR_AREA, job.found)
       IN IF c.exc # "none"
          THEN Step(w, w_frames, "done", c.exc, NoImage, EmptyDict)
          ELSE Step(w, STORE_FAST(w_frames, w, "cropped_image", c.image), "scale_image",
                    "none", NoImage, EmptyDict)

\* prepare_form: return self.scale_image(cropped_image, target_size)
PrepareScale(w) ==
    /\ Running(w, "prepare_form", "scale_image")
    /\ LET z == scale_image(w_frames[w].cropped_image, <<1024, 768>>)
       IN Step(w, w_frames, "done", z.exc, z.image, EmptyDict)

\* validate_data: errors = {}
ValidateBegin(w) ==
    /\ Running(w, "validate_data", "ready")
    /\ Step(w, STORE_FAST(w_frames, w, "errors", NoErrors), "numbers", "none", NoImage,
            EmptyDict)

\* validate_data: the five tests of the number fields
ValidateNumbers(w) ==
    /\ Running(w, "validate_data", "numbers")
    /\ LET acc == check_numbers(w_frames[w].errors, w_frames[w].job.data)
       IN Step(w, STORE_FAST(w_frames, w, "errors", acc), "dates", "none", NoImage, EmptyDict)

\* validate_data: the two tests of the date fields
ValidateDates(w) ==
    /\ Running(w, "validate_data", "dates")
    /\ LET acc == check_dates(w_frames[w].errors, w_frames[w].job.data)
       IN Step(w, STORE_FAST(w_frames, w, "errors", acc), "return", "none", NoImage, EmptyDict)

\* validate_data: return errors
ValidateReturn(w) ==
    /\ Running(w, "validate_data", "return")
    /\ Step(w, w_frames, "done", w_frames[w].errors.exc, NoImage, w_frames[w].errors.errors)

NextWorkers ==
    \E w \in Workers :
        \/ PrepareCheck(w) \/ PrepareCrop(w) \/ PrepareScale(w)
        \/ ValidateBegin(w) \/ ValidateNumbers(w) \/ ValidateDates(w) \/ ValidateReturn(w)
\* the operator types into the input of a field: onChange -> handleChange
CorrectionChange ==
    /\ c_pc \in {"mounted", "submitted"}
    /\ \E field \in CorrectionInputs(c_validationErrors), value \in TypedValues :
          /\ c_correctedData' = handleChange(c_correctedData, field, value)
          /\ c_edited' = c_edited \cup {field}
    /\ c_pc' = "mounted"
    /\ UNCHANGED <<c_data, c_validationErrors, c_submitted, but_c>>

\* handleSubmit: onSubmit(correctedData)
CorrectionSubmit ==
    /\ c_pc = "mounted"
    /\ c_submitted' = c_correctedData
    /\ c_pc' = "submitted"
    /\ UNCHANGED <<c_data, c_validationErrors, c_correctedData, c_edited, but_c>>

\* FormUpload renders again with other extractedData and validationErrors
\* (a later answer to handleFormSubmit while the form is shown); the form
\* stays mounted and useState(data) keeps its state
CorrectionProps ==
    /\ c_pc \in {"mounted", "submitted"}
    /\ c_data' \in DataProps
    /\ c_validationErrors' \in ErrorProps
    /\ <<c_data', c_validationErrors'>> # <<c_data, c_validationErrors>>
    /\ c_pc' = "mounted"
    /\ UNCHANGED <<c_correctedData, c_edited, c_submitted, but_c>>

NextCorrection == CorrectionChange \/ CorrectionSubmit \/ CorrectionProps

\* the operator picks a folder: onChange -> handleNewFolderSelect
FolderSelect ==
    /\ f_version # "none"
    /\ ~folderInputDisabled(f_version, f_processing)
    /\ \E files \in FolderSelections :
          LET st == handleNewFolderSelect(f_version,
                        [folderPath |-> f_folderPath, selectedFiles |-> f_selectedFiles,
                         error |-> f_error, result |-> f_result], files)
          IN  /\ f_folderPath' = st.folderPath
              /\ f_selectedFiles' = st.selectedFiles
              /\ f_error' = st.error
              /\ f_result' = st.result
    /\ UNCHANGED <<f_version, f_processing, f_progress, f_scans, f_log, f_last, but_f>>

\* scanDefaultFolder up to its await fetch
FolderScanDefault ==
    /\ f_version # "none"
    /\ ~scanDefaultDisabled(f_processing)
    /\ Len(f_scans) < MaxScans
    /\ f_processing' = TRUE
    /\ f_progress' = Number(10)
    /\ f_result' = "null"
    /\ f_error' = "null"
    /\ f_scans' = Append(f_scans, [kind |-> "default", pc |-> "fetch", set |-> {}])
    /\ f_log' = <<Number(10)>>
    /\ UNCHANGED <<f_version, f_folderPath, f_selectedFiles, f_last, but_f>>

\* scanNewFolder up to its await fetch
FolderScanNew ==
    /\ f_version # "none"
    /\ ~scanNewDisabled(f_processing, f_folderPath)
    /\ Len(f_scans) < MaxScans
    /\ IF f_version = "part_003"
       THEN IF f_folderPath = "" \/ Len(f_selectedFiles) = 0
            THEN /\ f_error' = "Please select a folder with files first."
                 /\ UNCHANGED <<f_processing, f_progress, f_result, f_scans, f_log>>
            ELSE LET log == <<Number(0)>> \o uploadProgressLog(f_selectedFiles)
                 IN  /\ f_processing' = TRUE
                     /\ f_progress' = log[Len(log)]
                     /\ f_result' = "null"
                     /\ f_error' = "null"
                     /\ f_scans' = Append(f_scans,
                                       [kind |-> "new", pc |-> "fetch", set |-> {}])
                     /\ f_log' = log
       ELSE IF f_folderPath = ""
            THEN UNCHANGED <<f_processing, f_progress, f_result, f_error, f_scans, f_log>>
            ELSE /\ f_processing' = TRUE
                 /\ f_progress' = Number(10)
                 /\ f_result' = "null"
                 /\ f_error' = "null"
                 /\ f_scans' = Append(f_scans, [kind |-> "new", pc |-> "fetch", set |-> {}])
                 /\ f_log' = <<Number(10)>>
    /\ UNCHANGED <<f_version, f_folderPath, f_selectedFiles, f_last, but_f>>

\* the finally block of scan i, after the scan has left result, error,
\* progress and the log as given: FolderProcessor resets at once, part_003
\* sets the one-second timer
ScanFinally(i, set, progress, log) ==
    IF f_version = "FolderProcessor"
    THEN /\ f_processing' = processingAfterScan
         /\ f_progress' = Number(0)
         /\ f_scans' = Remove(f_scans, i)
         /\ f_last' = [kind |-> f_scans[i].kind, set |-> set]
         /\ f_log' = log
    ELSE /\ f_scans' = [f_scans EXCEPT ![i] = [kind |-> f_scans[i].kind, pc |-> "timer",
                                               set |-> set]]
         /\ f_progress' = progress
         /\ f_log' = log
         /\ UNCHANGED <<f_processing, f_last>>

\* await fetch(...) of a scan settles; a response that is not ok is read
\* and thrown
FolderResponse ==
    /\ \E i \in 1..Len(f_scans), outcome \in FetchOutcomes :
          /\ f_scans[i].pc = "fetch"
          /\ IF outcome = "ok"
             THEN /\ f_scans' = [f_scans EXCEPT ![i].pc = "json"]
                  /\ IF f_version = "part_003" /\ f_scans[i].kind = "new"
                     THEN /\ f_progress' = Number(75)
                          /\ f_log' = Append(f_log, Number(75))
                     ELSE UNCHANGED <<f_progress, f_log>>
                  /\ UNCHANGED <<f_processing, f_result, f_error, f_last>>
             ELSE /\ f_error' = scanErrorMessage(f_scans[i].kind, outcome)
                  /\ f_result' = f_result
                  /\ ScanFinally(i, f_scans[i].set \cup {"error"}, f_progress, f_log)
    /\ UNCHANGED <<f_version, f_folderPath, f_selectedFiles, but_f>>

\* await response.json() of an ok response settles
FolderBody ==
    /\ \E i \in 1..Len(f_scans), body \in BodyOutcomes :
          /\ f_scans[i].pc = "json"
          /\ IF body = "data"
             THEN /\ f_result' = "data"
                  /\ f_error' = f_error
                  /\ ScanFinally(i, f_scans[i].set \cup {"result"}, Number(100),
                                 Append(f_log, Number(100)))
             ELSE /\ f_error' = scanErrorMessage(f_scans[i].kind, "ok_unparseable")
                  /\ f_result' = f_result
                  /\ ScanFinally(i, f_scans[i].set \cup {"error"}, f_progress, f_log)
    /\ UNCHANGED <<f_version, f_folderPath, f_selectedFiles, but_f>>

\* part_003: the callback of setTimeout(..., 1000) runs
FolderTimer ==
    /\ \E i \in 1..Len(f_scans) :
          /\ f_scans[i].pc = "timer"
          /\ f_processing' = processingAfterScan
          /\ f_progress' = Number(0)
          /\ f_scans' = Remove(f_scans, i)
          /\ f_last' = [kind |-> f_scans[i].kind, set |-> f_scans[i].set]
    /\ UNCHANGED <<f_version, f_folderPath, f_selectedFiles, f_result, f_error, f_log, but_f>>

NextFolder == FolderSelect \/ FolderScanDefault \/ FolderScanNew \/ FolderResponse
              \/ FolderBody \/ FolderTimer
\* the render that follows a change of state computes filteredRecords from
\* the new records, searchTerm and sortConfig
RecordsRender(records, searchTerm, sortConfig) ==
    LET memo == filteredRecords(r_version, records, searchTerm, sortConfig)
    IN  /\ r_records' = memo.stored
        /\ r_view' = memo.view
        /\ r_searchTerm' = searchTerm
        /\ r_sortConfig' = sortConfig

\* useEffect(() => { fetchRecords(); }, []): fetchRecords up to await fetch
RecordsMount ==
    /\ r_last = "constructed"
    /\ r_loading' = TRUE
    /\ r_fetch' = r_fetch + 1
    /\ r_last' = "mounted"
    /\ RecordsRender(r_records, r_searchTerm, r_sortConfig)
    /\ UNCHANGED <<r_version, r_stats, but_r>>

\* the Refresh button, never disabled: fetchRecords up to await fetch
RecordsRefresh ==
    /\ r_last \notin {"none", "constructed"}
    /\ ~r_view.crashed
    /\ r_fetch < MaxFetches
    /\ r_loading' = TRUE
    /\ r_fetch' = r_fetch + 1
    /\ RecordsRender(r_records, r_searchTerm, r_sortConfig)
    /\ UNCHANGED <<r_version, r_stats, r_last, but_r>>

\* a request of fetchRecords settles: the rest of fetchRecords
RecordsResponse ==
    /\ r_fetch > 0
    /\ ~r_view.crashed
    /\ \E outcome \in RecordsOutcomes :
          LET st == fetchRecords(r_version, [records |-> r_records, stats |-> r_stats],
                                 outcome)
          IN  /\ r_stats' = st.stats
              /\ RecordsRender(st.records, r_searchTerm, r_sortConfig)
              /\ r_last' = IF outcome.kind # "rejected" /\ ~outcome.ok
                           THEN "not_ok" ELSE outcome.kind
    /\ r_loading' = FALSE
    /\ r_fetch' = r_fetch - 1
    /\ UNCHANGED <<r_version, but_r>>

\* a click on a column header: handleSort(key)
RecordsSort ==
    /\ r_last \notin {"none", "constructed"}
    /\ ~r_view.crashed
    /\ \E key \in SortKeys :
          RecordsRender(r_records, r_searchTerm, handleSort(r_sortConfig, key))
    /\ UNCHANGED <<r_version, r_loading, r_stats, r_fetch, r_last, but_r>>

\* typing in the search box: setSearchTerm(e.target.value)
RecordsSearch ==
    /\ r_last \notin {"none", "constructed"}
    /\ ~r_view.crashed
    /\ \E term \in SearchTerms \ {r_searchTerm} :
          RecordsRender(r_records, term, r_sortConfig)
    /\ UNCHANGED <<r_version, r_loading, r_stats, r_fetch, r_last, but_r>>

NextRecords == RecordsMount \/ RecordsRefresh \/ RecordsResponse \/ RecordsSort
               \/ RecordsSearch
\* the Create Backup button: handleBackup up to await fetch
DatabaseBackup ==
    /\ d_clock > 0
    /\ ~backupDisabled(d_isBackingUp)
    /\ d_fetch < MaxBackups
    /\ d_isBackingUp' = TRUE
    /\ d_fetch' = d_fetch + 1
    /\ UNCHANGED <<d_isOptimizing, d_lastBackup, d_clock, d_last, but_d>>

\* a backup request settles: the rest of handleBackup
DatabaseResponse ==
    /\ d_fetch > 0
    /\ \E outcome \in BackupOutcomes :
          /\ d_lastBackup' = handleBackup(d_lastBackup, outcome, d_clock)
          /\ d_last' = outcome
    /\ d_isBackingUp' = FALSE
    /\ d_fetch' = d_fetch - 1
    /\ UNCHANGED <<d_isOptimizing, d_clock, but_d>>

\* the Optimize button: handleOptimize up to await fetch
DatabaseOptimize ==
    /\ d_clock > 0
    /\ ~d_isOptimizing
    /\ d_isOptimizing' = TRUE
    /\ UNCHANGED <<d_isBackingUp, d_lastBackup, d_fetch, d_clock, d_last, but_d>>

\* the optimize request settles, in whatever way: finally
DatabaseOptimized ==
    /\ d_isOptimizing
    /\ d_isOptimizing' = FALSE
    /\ UNCHANGED <<d_isBackingUp, d_lastBackup, d_fetch, d_clock, d_last, but_d>>

\* a second passes
DatabaseTick ==
    /\ d_clock > 0
    /\ d_clock < MaxClock
    /\ d_clock' = d_clock + 1
    /\ UNCHANGED <<d_isBackingUp, d_isOptimizing, d_lastBackup, d_fetch, d_last, but_d>>

NextDatabase == DatabaseBackup \/ DatabaseResponse \/ DatabaseOptimize \/ DatabaseOptimized
                \/ DatabaseTick
Next == NextValidator \/ NextPreparer \/ NextPreprocessor \/ NextTuner \/ NextUpload
        \/ NextBatch \/ NextWorkers \/ NextCorrection \/ NextFolder \/ NextRecords
        \/ NextDatabase

SpecValidator == InitValidator /\ [][NextValidator]_vars
SpecPreparer == InitPreparer /\ [][NextPreparer]_vars
SpecPreprocessor == InitPreprocessor /\ [][NextPreprocessor]_vars
SpecTuner == InitTuner /\ [][NextTuner]_vars
SpecUpload == InitUpload /\ [][NextUpload]_vars
SpecBatch == InitBatch /\ [][NextBatch]_vars
SpecWorkers == InitWorkers /\ [][NextWorkers]_vars
SpecCorrection == InitCorrection /\ [][NextCorrection]_vars
SpecFolder == InitFolder /\ [][NextFolder]_vars
SpecRecords == InitRecords /\ [][NextRecords]_vars
SpecDatabase == InitDatabase /\ [][NextDatabase]_vars
\* every request settles, every body is read and every timer runs
SpecFolderFair ==
    SpecFolder /\ WF_vars(FolderResponse) /\ WF_vars(FolderBody) /\ WF_vars(FolderTimer)
Spec == Init /\ [][Next]_vars

(***************************************************************************)
(* Properties of Validator.validate_data.                                  *)
(***************************************************************************)
\* the rule of a field, as validate_data dispatches it
RulePasses(field, value) ==
    CASE field = "medicare_number" -> is_valid_medicare_number(value)
      [] field \in {"home_phone_number", "mobile_phone_number"} -> is_valid_phone_number(value)
      [] field = "request_number" -> is_valid_request_number(value)
      [] field = "provider_number" -> is_valid_provider_number(value)
      [] field \in DateFields -> is_valid_date(value).val

Reported == DOMAIN v_out.errors

\* C1: the keys of the map validate_data returns are exactly the fields that
\* are present in the input, have a rule, and whose value fails that rule;
\* absent fields and fields without a rule never appear.
C1_KeysAreFailingRuleFields ==
    v_pc = "returned" =>
        Reported = {f \in DOMAIN data \cap RuleFields : ~RulePasses(f, data[f])}

C1_Witness ==
    /\ v_pc = "returned"
    /\ "patient_name" \in DOMAIN data /\ "patient_name" \notin Reported
    /\ "medicare_number" \in DOMAIN data /\ "medicare_number" \in Reported
    /\ "request_number" \in DOMAIN data /\ "request_number" \notin Reported
    /\ "provider_number" \notin DOMAIN data

IsDecimalDigit(c) == c \in AsciiDigits \cup UnicodeDigits
IsAlphanumeric(c) == c \in AsciiDigits \cup Letters

AllOf(s, from, Test(_)) == \A i \in from .. Len(s) : Test(s[i])

\* C2: a number field is valid only when the whole value is ten digits, a
\* request number only when it is "24H" and five digits, a provider number
\* only when it is eight alphanumerics; one more character before or after,
\* a trailing newline included, makes the value invalid.
C2_WholeStringRules ==
    v_pc = "returned" =>
        \A f \in DOMAIN data :
            /\ f \in NumberFields =>
                  (f \notin Reported <=>
                      Len(data[f]) = 10 /\ AllOf(data[f], 1, IsDecimalDigit))
            /\ f = "request_number" =>
                  (f \notin Reported <=>
                      /\ Len(data[f]) = 8
                      /\ SubSeq(data[f], 1, 3) = <<"2", "4", "H">>
                      /\ AllOf(data[f], 4, IsDecimalDigit))
            /\ f = "provider_number" =>
                  (f \notin Reported <=>
                      Len(data[f]) = 8 /\ AllOf(data[f], 1, IsAlphanumeric))

RECURSIVE DigitsValue(_)
DigitsValue(s) ==
    IF s = <<>> THEN 0
    ELSE 10 * DigitsValue(SubSeq(s, 1, Len(s) - 1)) + DigitValue(s[Len(s)])

IsAsciiDigit(c) == c \in AsciiDigits

LastDayOf(m, y) ==
    IF m = 2
    THEN (IF (y % 400 = 0) \/ (y % 4 = 0 /\ y % 100 # 0) THEN 29 ELSE 28)
    ELSE IF m \in {4, 6, 9, 11} THEN 30 ELSE 31

\* the text of a day: one or two digits, or a blank and a digit
DayText(t) ==
    \/ Len(t) \in {1, 2} /\ AllOf(t, 1, IsAsciiDigit)
    \/ Len(t) = 2 /\ t[1] = " " /\ IsAsciiDigit(t[2])

\* s reads day "/" month "/" four-digit year and names a day of the calendar
CalendarDate(s) ==
    \E i \in 1 .. Len(s), j \in 1 .. Len(s) :
        /\ i < j /\ s[i] = "/" /\ s[j] = "/"
        /\ LET dd == SubSeq(s, 1, i - 1)
               mm == SubSeq(s, i + 1, j - 1)
               yy == SubSeq(s, j + 1, Len(s))
           IN /\ DayText(dd)
              /\ Len(mm) \in {1, 2} /\ AllOf(mm, 1, IsAsciiDigit)
              /\ Len(yy) = 4 /\ AllOf(yy, 1, IsAsciiDigit)
              /\ LET d == DigitsValue(IF dd[1] = " " THEN Tail(dd) ELSE dd)
                     m == DigitsValue(mm)
                     y == DigitsValue(yy)
                 IN y >= 1 /\ m \in 1 .. 12 /\ d >= 1 /\ d <= LastDayOf(m, y)

\* C3: date_of_birth and request_date are valid exactly when the value reads
\* day/month/four-digit-year and names a real calendar date: 31/02/2020 is
\* reported, 01/01/2000 is not.
C3_DateValidIffCalendarDate ==
    v_pc = "returned" =>
        \A f \in DOMAIN data \cap DateFields :
            f \notin Reported <=> CalendarDate(data[f])

C3_Witness ==
    /\ v_pc = "returned"
    /\ "date_of_birth" \in DOMAIN data
    /\ data["date_of_birth"] = <<"3", "1", "/", "0", "2", "/", "2", "0", "2", "0">>
    /\ "date_of_birth" \in Reported

\* C4: validate_data never raises on a map of strings; a value that does not
\* parse is an entry of the returned map, not an exception.
C4_NeverRaises ==
    /\ v_pc # "raised"
    /\ v_pc = "returned" =>
          /\ v_out.exc = "none"
          /\ \A f \in DOMAIN data \cap DateFields :
                strptime(data[f], DATE_FORMAT).exc # "none" => f \in Reported

C4_Witness ==
    /\ v_pc = "returned"
    /\ "request_date" \in DOMAIN data
    /\ strptime(data["request_date"], DATE_FORMAT).exc = "ValueError"
    /\ "request_date" \in Reported

(***************************************************************************)
(* Properties of RequestFormPreparer.                                      *)
(***************************************************************************)
Done == p_pc \in {"returned", "raised"}

\* the min_contour_area the call runs with
UsedMinArea == IF p_call = "prepare_form" THEN DEFAULT_MIN_CONTOUR_AREA ELSE min_area

\* C5: with a supported colour, crop_to_border returns the image it was given,
\* unmodified, when no contour is found or none has an area of at least
\* min_contour_area.
C5_NoBorderReturnsOriginal ==
    (/\ Done
     /\ p_call = "crop_to_border"
     /\ color \in COLOR_RANGES
     /\ \A i \in 1 .. Len(contours) : contours[i].area < min_area)
    => /\ p_pc = "returned"
       /\ p_out.image = img
       /\ ~p_out.cropped

C5_Witness ==
    /\ p_pc = "returned"
    /\ p_call = "crop_to_border"
    /\ color \in COLOR_RANGES
    /\ Len(contours) = 2
    /\ \A i \in 1 .. Len(contours) : contours[i].area < min_area
    /\ p_out.image = img

\* C6: with a colour that is not in the table, crop_to_border and
\* prepare_form both fail with the unsupported-colour error, and prepare_form
\* fails before any stage has run.
C6_UnsupportedColorError ==
    (/\ Done
     /\ p_call \in {"crop_to_border", "prepare_form"}
     /\ color \notin COLOR_RANGES)
    => /\ p_pc = "raised"
       /\ p_out.exc = "ValueError"
       /\ p_call = "prepare_form" => p_out.trace = <<>>

\* C7: the padded crop rectangle lies inside the source image, and the image
\* crop_to_border returns is never larger than its input.
C7_CropInsideImage ==
    (p_pc = "returned" /\ p_call = "crop_to_border") =>
        /\ p_out.image.cols <= img.cols
        /\ p_out.image.rows <= img.rows
        /\ p_out.cropped =>
              /\ p_out.rect.x >= 0
              /\ p_out.rect.y >= 0
              /\ p_out.rect.w >= 0
              /\ p_out.rect.h >= 0
              /\ p_out.rect.x + p_out.rect.w <= img.cols
              /\ p_out.rect.y + p_out.rect.h <= img.rows
              /\ p_out.image.cols = p_out.rect.w
              /\ p_out.image.rows = p_out.rect.h
              /\ p_out.image.x0 = p_out.rect.x
              /\ p_out.image.y0 = p_out.rect.y

C7_Witness ==
    /\ p_pc = "returned"
    /\ p_call = "crop_to_border"
    /\ p_out.cropped
    /\ Len(contours) = 1
    /\ contours[1].x = 0
    /\ contours[1].x + contours[1].w = img.cols
    /\ contours[1].y = padding - 1
    /\ p_out.rect.w = img.cols

\* the contour the call crops to
Selected == boundingRect(largest_contour(valid_contours(contours, UsedMinArea)))

\* C8: the crop contains the bounding rectangle of the selected contour, and
\* each edge of the crop is at most padding pixels outside the matching edge
\* of that rectangle.
C8_CropWithinPadding ==
    (p_pc = "returned" /\ p_call = "crop_to_border" /\ p_out.cropped) =>
        LET b == Selected
            c == p_out.rect
        IN /\ c.x <= b.x /\ b.x - c.x <= padding
           /\ c.y <= b.y /\ b.y - c.y <= padding
           /\ c.x + c.w >= b.x + b.w /\ (c.x + c.w) - (b.x + b.w) <= padding
           /\ c.y + c.h >= b.y + b.h /\ (c.y + c.h) - (b.y + b.h) <= padding

\* C9: the image scale_image returns has exactly the requested width and
\* height, whatever the aspect ratio of its input.
C9_ScaleGivesRequestedSize ==
    (Done /\ p_call = "scale_image") =>
        /\ p_pc = "returned"
        /\ p_out.image.cols = target[1]
        /\ p_out.image.rows = target[2]

C9_Witness ==
    /\ p_pc = "returned"
    /\ p_call = "scale_image"
    /\ img.cols * target[2] # img.rows * target[1]
    /\ target[1] # target[2]
    /\ p_out.image.cols = target[1]

\* C10: with a supported colour, prepare_form returns an image of the target
\* size whether a border was cropped or not, and scaling comes after border
\* detection: what is scaled is what crop_to_border returned.
C10_PrepareFormGivesTargetSize ==
    (Done /\ p_call = "prepare_form" /\ color \in COLOR_RANGES) =>
        /\ p_pc = "returned"
        /\ p_out.image.cols = target[1]
        /\ p_out.image.rows = target[2]
        /\ p_out.image.kind = "resized"
        /\ p_out.image.from_cols = (IF p_out.cropped THEN p_out.rect.w ELSE img.cols)
        /\ p_out.image.from_rows = (IF p_out.cropped THEN p_out.rect.h ELSE img.rows)
        /\ \E i \in 1 .. Len(p_out.trace), j \in 1 .. Len(p_out.trace) :
              /\ p_out.trace[i] = "findContours"
              /\ p_out.trace[j] = "resize"
              /\ i < j

C10_Witness ==
    /\ p_pc = "returned"
    /\ p_call = "prepare_form"
    /\ p_out.cropped
    /\ p_out.rect.w < img.cols
    /\ p_out.image.cols = target[1]
    /\ p_out.image.rows = target[2]
    /\ target[1] # img.cols

(***************************************************************************)
(* Properties of ImagePreprocessor and of enhance_saturation.              *)
(***************************************************************************)
Adjusted == a_pc \in {"returned", "raised"} /\ a_call = "adjust_brightness_contrast"
Binarized == a_pc \in {"returned", "raised"} /\ a_call = "binarize_image"
Enhanced == a_pc \in {"returned", "raised"} /\ a_call = "enhance_saturation"

\* C11, as stated: adjust_brightness_contrast with brightness = 0 and
\* contrast = 0 returns an image equal to its input, pixel by pixel.
C11_IdentityAtZero ==
    (Adjusted /\ a_args.brightness = 0 /\ a_args.contrast = 0) =>
        /\ a_pc = "returned"
        /\ a_out.image = a_args.image

\* C11, amended: adjust_brightness_contrast with brightness = 50 and
\* contrast = 50, the midpoints of the sliders, returns an image equal to its
\* input, pixel by pixel.
C11_IdentityAtMidpoint ==
    (Adjusted /\ a_args.brightness = 50 /\ a_args.contrast = 50) =>
        /\ a_pc = "returned"
        /\ a_out.image = a_args.image

C11_Witness ==
    /\ Adjusted
    /\ a_args.brightness = 50 /\ a_args.contrast = 50
    /\ a_args.image = << <<10, 200, 30>>, <<255, 255, 255>> >>
    /\ a_out.image = a_args.image

\* C12, as stated: every pixel of the output of binarize_image is 0 or 255,
\* and it is 255 exactly when the gray value of the pixel is greater than or
\* equal to the threshold.
C12_WhiteIffAtLeastThreshold ==
    Binarized =>
        /\ a_pc = "returned"
        /\ Len(a_out.image) = Len(a_args.image)
        /\ \A i \in 1 .. Len(a_out.image) :
              /\ a_out.image[i] \in {0, 255}
              /\ a_out.image[i] = 255 <=> BGR2GRAY(a_args.image[i]) >= a_args.threshold

\* C12, amended: every pixel of the output of binarize_image is 0 or 255, and
\* it is 255 exactly when the gray value of the pixel is strictly greater
\* than the threshold (a pixel equal to the threshold maps to black).
C12_WhiteIffAboveThreshold ==
    Binarized =>
        /\ a_pc = "returned"
        /\ Len(a_out.image) = Len(a_args.image)
        /\ \A i \in 1 .. Len(a_out.image) :
              /\ a_out.image[i] \in {0, 255}
              /\ a_out.image[i] = 255 <=> BGR2GRAY(a_args.image[i]) > a_args.threshold

C12_Witness ==
    /\ Binarized
    /\ a_args.threshold = 128
    /\ a_args.image = << <<128, 128, 128>>, <<200, 100, 50>> >>
    /\ a_out.image = <<0, 0>>

\* the sliders as the transform uses them, and the transform on one sample
Offset(slider) == ((slider - 50) * 255 - (((slider - 50) * 255) % 100)) \div 100
              + (IF slider < 50 /\ ((slider - 50) * 255) % 100 # 0 THEN 1 ELSE 0)

\* round(alpha * x + beta) with alpha = (127 + c) / (127 - c), beta = b - 127 * alpha
LinearTransform(x, b, c) ==
    IF c = 0 THEN x + b
    ELSE cvRound(x * (127 + c) + b * (127 - c) - 127 * (127 + c), 127 - c)

\* C15: for every brightness and contrast in 0..100, adjust_brightness_contrast
\* returns an image, and each sample the transform applies to is the value of
\* the linear transform clamped into 0..255: 255 above, 0 below, never a
\* value wrapped modulo 256.
C15_ClampedLinearTransform ==
    Adjusted =>
        /\ a_pc = "returned"
        /\ Len(a_out.image) = Len(a_args.image)
        /\ \A i \in 1 .. Len(a_out.image), k \in 1 .. 3 :
              (a_args.contrast # 50 \/ a_args.all_channels \/ k = 1) =>
                 LET y == LinearTransform(a_args.image[i][k], Offset(a_args.brightness),
                                          Offset(a_args.contrast))
                 IN a_out.image[i][k] = (IF y > 255 THEN 255 ELSE IF y < 0 THEN 0 ELSE y)

\* C16: in enhance_saturation the new saturation of every pixel is
\* min(255, max(0, saturation + saturation_boost)); hue and value are kept.
C16_SaturatingBoost ==
    Enhanced =>
        /\ a_pc = "returned"
        /\ Len(a_out.hsv) = Len(a_args.image)
        /\ \A i \in 1 .. Len(a_out.hsv) :
              LET old == BGR2HSV(a_args.image[i])
                  sum == old[2] + a_args.boost
              IN /\ a_out.hsv[i][2] = (IF sum > 255 THEN 255 ELSE IF sum < 0 THEN 0 ELSE sum)
                 /\ a_out.hsv[i][1] = old[1]
                 /\ a_out.hsv[i][3] = old[3]

C16_Witness ==
    /\ Enhanced
    /\ a_args.boost = 100
    /\ a_args.image = << <<10, 200, 30>> >>
    /\ BGR2HSV(a_args.image[1])[2] = 242
    /\ a_out.hsv[1][2] = 255

(***************************************************************************)
(* Which contour crop_to_border selects.                                   *)
(***************************************************************************)
\* the positions of the contours that qualify, and the first of the largest
\* of them
AtLeastMinArea == {i \in 1 .. Len(contours) : contours[i].area >= min_area}
AboveMinArea == {i \in 1 .. Len(contours) : contours[i].area > min_area}
FirstLargest(among) ==
    CHOOSE k \in among :
        /\ \A j \in among : contours[j].area <= contours[k].area
        /\ \A j \in among : j < k => contours[j].area < contours[k].area
CroppedTo(k) ==
    /\ p_out.cropped
    /\ p_out.rect = padded_rect(img, [x |-> contours[k].x, y |-> contours[k].y,
                                      w |-> contours[k].w, h |-> contours[k].h])
CropCall == p_pc = "returned" /\ p_call = "crop_to_border" /\ color \in COLOR_RANGES

InLoop == t_pc \in {"Idle", "Rendering"}

\* the current parameters applied once to the array handed to visualize, with
\* their text drawn on the result
PreviewOfOriginal ==
    _overlay_text(process_image(t_image, _get_trackbar_values(t_track), t_all_channels).image,
                  _get_trackbar_values(t_track))

\* C18: the frame on display is the current brightness, contrast and
\* threshold applied once to the original image, with the text of these
\* values and of no earlier ones, and no step of the session changes the
\* original image.
C18_FrameFromOriginal ==
    /\ [](t_pc = "Idle" => (t_frame = PreviewOfOriginal /\ t_image.drawn = {}))
    /\ [][t_pc # "idle" => t_image' = t_image]_vars

C18_Witness ==
    /\ t_pc = "Idle"
    /\ t_key = "other"
    /\ t_track = [brightness |-> 90, contrast |-> 0, threshold |-> 0]
    /\ t_image.pixels = << <<10, 200, 30>>, <<128, 128, 128>> >>
    /\ t_frame.drawn = {<<90, 0, 0>>}
    /\ t_frame.pixels # t_image.pixels

\* C19: the loop alternates Rendering and Idle, and it is left only by the
\* step in which the operator gives the quit signal, which always ends it,
\* whatever the positions of the trackbars.
C19_EndsIffQuit ==
    [][/\ t_pc = "Rendering" => t_pc' = "Idle"
       /\ t_pc = "Idle" => t_pc' = (IF t_key' = "q" THEN "closed" ELSE "Rendering")
       /\ (InLoop /\ t_pc' \notin {"Idle", "Rendering"}) => t_key' = "q"]_vars

(***************************************************************************)
(* Properties of FormUpload.                                               *)
(***************************************************************************)
\* the handler that resumes in this step, and the answer it resumes with
Resumes(url) == u_fetch' # u_fetch /\ Len(u_fetch') < Len(u_fetch) /\ u_last'.url = url
Answer == u_last'.response
Parsed == Answer.status # 0 /\ Answer.json

\* C20: an answer of status 400 to the processing of a form shows the
\* correction form with the data and the errors of that answer; an answer of
\* status 200 to it never shows the correction form; the correction form,
\* once shown, is closed only by a corrections submission answered with
\* status 200, and every other answer to a corrections submission leaves it
\* as it is.
C20_CorrectionRouting ==
    [][/\ (Resumes("process-form") /\ Parsed /\ Answer.status = 400) =>
             /\ u_showCorrectionForm'
             /\ u_extractedData' = Answer.data
             /\ u_validationErrors' = Answer.validation_errors
       /\ (Resumes("process-form") /\ Answer.status = 200) =>
             u_showCorrectionForm' = u_showCorrectionForm
       /\ (u_showCorrectionForm /\ ~u_showCorrectionForm') =>
             (Resumes("submit-corrections") /\ Parsed /\ Answer.status = 200)
       /\ (Resumes("submit-corrections") /\ ~(Parsed /\ Answer.status = 200)) =>
             u_showCorrectionForm' = u_showCorrectionForm]_vars

\* the correction form was shown with the data and errors of an answer of
\* status 400, and a corrections submission answered with 200 has closed it
C20_Witness ==
    /\ ~u_showCorrectionForm
    /\ u_validationErrors = "errors1"
    /\ u_extractedData = "data2"
    /\ u_last.url = "submit-corrections"
    /\ u_last.response.status = 200
    /\ u_last.response.json
    /\ u_fetch = <<>>

(***************************************************************************)
(* Properties of a batch.                                                  *)
(***************************************************************************)
LoadFails(i) == b_batch[i].file # "image"
ColorFails(i) == b_batch[i].file = "image" /\ b_batch[i].color \notin COLOR_RANGES

C13_InterleavedAsSequential ==
    \A w \in Workers :
        w_frames # <<>> /\ w_frames[w].pc = "done" =>
            LET f == w_frames[w]
                job == f.job
            IN IF job.kind = "prepare_form"
               THEN LET r == prepare_form(job.image, <<1024, 768>>, job.color, job.found)
                    IN f.exc = r.exc /\ f.image = r.image
               ELSE LET r == validate_data(job.data)
                    IN f.exc = r.exc /\ f.result = r.errors

C13_Witness ==
    /\ w_frames # <<>>
    /\ w_overlap
    /\ \A w \in Workers : w_frames[w].pc = "done"
    /\ w_frames[1].job.kind = "prepare_form" /\ w_frames[2].job.kind = "prepare_form"
    /\ w_frames[1].job.image # w_frames[2].job.image
    /\ w_frames[1].image # NoImage /\ w_frames[2].image # NoImage
    /\ w_frames[1].image # w_frames[2].image

(***************************************************************************)
(* Properties of CorrectionForm.                                           *)
(***************************************************************************)
\* C21: the form has an input for exactly the fields with an entry in
\* validationErrors, and what it submits has every field of the extracted
\* data, with a value other than the extracted one only in fields that have
\* an error entry and that the operator edited.
C21_SubmitsDataWithEdits ==
    /\ c_pc # "idle" => CorrectionInputs(c_validationErrors) = DOMAIN c_validationErrors
    /\ c_pc = "submitted" =>
          /\ DOMAIN c_data \subseteq DOMAIN c_submitted
          /\ \A f \in DOMAIN c_data :
                c_submitted[f] # c_data[f] =>
                    (f \in DOMAIN c_validationErrors /\ f \in c_edited)

(***************************************************************************)
(* Properties of FolderScanner.                                            *)
(***************************************************************************)
\* C22: a scan starts only while processing is false and sets it; processing
\* stays true while a scan is under way and goes back to false only when a
\* scan completes; there is never more than one scan under way.
C22_OneScanAtATime ==
    /\ [](/\ Len(f_scans) <= 1
          /\ (Len(f_scans) > 0 => f_processing))
    /\ [][/\ (Len(f_scans') > Len(f_scans) => (~f_processing /\ f_processing'))
          /\ ((f_processing /\ ~f_processing') => Len(f_scans') < Len(f_scans))]_vars

\* a scan is reading its answer after an earlier scan has completed
C22_Witness ==
    /\ f_processing
    /\ Len(f_scans) = 1
    /\ f_scans[1].pc = "json"
    /\ f_last.kind # "none"

\* C23: every scan that starts comes back to idle, with processing false and
\* progress 0, whether the request succeeds, is answered not-ok or fails;
\* the scan that completes has set exactly one of result and error, and
\* exactly one of them is held then.
C23_ScanReturnsToIdle ==
    /\ [](f_processing => <>(~f_processing /\ f_progress = Number(0)))
    /\ [][Len(f_scans') < Len(f_scans) =>
            /\ ~f_processing'
            /\ f_progress' = Number(0)
            /\ Cardinality(f_last'.set) = 1
            /\ (f_result' # "null") # (f_error' # "null")]_vars

\* the newer version is idle again after a scan of a picked folder failed
C23_Witness ==
    /\ f_version = "part_003"
    /\ f_last = [kind |-> "new", set |-> {"error"}]
    /\ ~f_processing
    /\ f_progress = Number(0)
    /\ f_error # "null"

\* C24: result and error are never held together, whatever folders are
\* picked (a pick with no files included) and whatever scans run.
C24_NeverResultAndError == ~(f_result # "null" /\ f_error # "null")

\* C25: while scanNewFolder of the newer version runs, every value given to
\* setProgress, and progress itself, is an integer in 0..100 and no value is
\* lower than the one before it.
C25_ProgressIntegerMonotone ==
    (f_version = "part_003" /\ Len(f_scans) > 0 /\ f_scans[1].kind = "new") =>
        /\ \A k \in 1..Len(f_log) :
              /\ ~f_log[k].nan
              /\ f_log[k].n \in 0..100
              /\ k > 1 => (~f_log[k - 1].nan /\ f_log[k - 1].n <= f_log[k].n)
        /\ ~f_progress.nan
        /\ f_progress.n \in 0..100

(***************************************************************************)
(* Properties of PatientRecordsDashboard.                                  *)
(***************************************************************************)
\* C26: loading is true whenever a fetchRecords request is outstanding, also
\* when Refresh was clicked again before the earlier request settled.
C26_LoadingWhileOutstanding == r_fetch > 0 => r_loading

\* C27: a fetchRecords that does not obtain a record list (the request
\* fails, the response is not ok, or the body holds no list) leaves records
\* and stats as they were and only sets loading to false.
C27_FailedFetchKeepsState ==
    [][(r_fetch' < r_fetch /\ r_last' \in {"rejected", "not_ok", "no_list", "unparseable"}) =>
          /\ r_records' = r_records
          /\ r_stats' = r_stats
          /\ ~r_loading']_vars

\* C28: after a successful fetchRecords, totalRecords is the number of
\* records held and averageConfidence is a number from 0 to 100, which is 0
\* when the list is empty or no record has a confidence value.
C28_StatsOfFetchedList ==
    r_last = "list" =>
        /\ r_stats.totalRecords = Len(r_records.items)
        /\ r_stats.averageConfidence.kind \in {"number", "string"}
        /\ 0 <= r_stats.averageConfidence.n
        /\ r_stats.averageConfidence.n <= 100 * r_stats.averageConfidence.d
        /\ WithConfidence(r_records.items) = <<>> => r_stats.averageConfidence.n = 0

\* C29: handleSort(key) gives the direction 'desc' exactly when the current
\* key is key and the current direction is 'asc', and 'asc' otherwise; the
\* key never goes back to null; sorting and searching never change or
\* reorder the records held, and the list shown holds only records held.
C29_SortTogglesOnCopy ==
    /\ [][r_sortConfig' # r_sortConfig =>
            /\ r_sortConfig'.key \in SortKeys
            /\ r_sortConfig'.direction =
                  IF r_sortConfig.key = r_sortConfig'.key /\ r_sortConfig.direction = "asc"
                  THEN "desc" ELSE "asc"]_vars
    /\ [][r_sortConfig.key # "null" => r_sortConfig'.key # "null"]_vars
    /\ [][(r_sortConfig' # r_sortConfig \/ r_searchTerm' # r_searchTerm) =>
            r_records' = r_records]_vars
    /\ [](\A k \in 1..Len(r_view.items) :
            \E j \in 1..Len(r_records.items) : r_view.items[k] = r_records.items[j])

\* three records are held in the order received and shown by name, descending
C29_Witness ==
    /\ r_sortConfig = [key |-> "patient_name", direction |-> "desc"]
    /\ r_records.items = <<Bob, Cy, Ann>>
    /\ r_view.items = <<Cy, Bob, Ann>>

(***************************************************************************)
(* Properties of DatabaseManagement.                                       *)
(***************************************************************************)
\* C30: lastBackup changes only when a backup completes with a response
\* whose success is true, and is then the time of completion; a backup that
\* fails or is answered without success leaves it as it was; isBackingUp is
\* true exactly while a backup is under way and false after each completes.
C30_LastBackupOnSuccessOnly ==
    /\ [][d_lastBackup' # d_lastBackup =>
            (d_fetch' < d_fetch /\ d_last' = "success_true")]_vars
    /\ [][d_fetch' < d_fetch =>
            /\ ~d_isBackingUp'
            /\ d_lastBackup' = IF d_last' = "success_true" THEN d_clock ELSE d_lastBackup]_vars
    /\ [](d_isBackingUp <=> d_fetch > 0)
    /\ [](d_fetch <= 1)

\* a backup answered without success has left the time of an earlier backup
C30_Witness ==
    /\ d_last = "success_false"
    /\ d_lastBackup # 0
    /\ d_lastBackup < d_clock
    /\ ~d_isBackingUp

====
